---- MODULE Spec2Model ----
(***************************************************************************)
(* A model of the pure text-to-data components of courses-backend:         *)
(*   - the unit parser            (crates/models/src/units.rs)             *)
(*   - the line classifier        (crates/data-scraper/.../first_pass.rs)  *)
(*   - the structural assembler   (second_pass, driven by bin/courses.rs)  *)
(*   - the requisite engine       (crates/models/src/requisite.rs)         *)
(*                                                                         *)
(* Text is modelled as a sequence of UTF-8 bytes.  An ASCII character is   *)
(* one byte, written as a one-character string; the two-byte character     *)
(* U+00E9 is the byte pair <<"C3", "A9">>.  Rust's str::len and str        *)
(* slicing count bytes, str::chars counts characters, and the model keeps  *)
(* the two apart.                                                          *)
(***************************************************************************)
EXTENDS Integers, Sequences, FiniteSets, TLC

VARIABLES
    unit_input,     \* the text handed to UnitType::from_str / Units::from_str
    unit_result,    \* what Units::from_str returned for it
    unit_type_result, \* what UnitType::from_str returned for it
    unit_text,      \* the Display text of the parsed Units
    unit_reparsed,  \* what Units::from_str returned for that text
    cmp_a,          \* a Units value
    cmp_b,          \* another Units value
    cmp_result,     \* what cmp_a.partial_cmp(&cmp_b) and cmp_a == cmp_b returned
    line,           \* one raw line of the schedule feed
    parsed,         \* the Line parse_line returned for it
    diag,           \* the diagnostics parse_line printed
    feed,           \* the data lines of a feed (after the header lines)
    sp_lines,       \* the classified lines first_pass returned
    sp_pos,         \* how many of them the assembler has consumed
    sp_course,      \* the assembler's open course
    sp_comp,        \* the assembler's open component
    sp_title,       \* the assembler's pending component-title override
    sp_out,         \* the courses the assembler has emitted
    sp_pc,          \* position of the parsing worker
    req_shape,      \* the operands and operators req_input was written from
    req_input,      \* the text handed to Expr::from_str
    req_result,     \* what Expr::from_str returned for it
    expr,           \* an expression tree
    completed,      \* a set of completed course numbers
    eval_result,    \* what Expr::evaluate returned
    simp_result,    \* what Expr::simplify returned
    day_input,      \* the text handed to DaySet::from_str, or NoText
    day_set,        \* a DaySet: the one parsed, or the one built with add
    day_text,       \* the Display text of day_set
    day_reparsed,   \* what DaySet::from_str returned for that text
    call,           \* the last call of a pure function and its value
    workers,        \* the parsing workers of main, one per downloaded feed
    console,        \* what the workers have printed, in the order it was printed
    db,             \* the committed rows of the courses, components and instructors tables
    batches,        \* the batch futures of save_courses, each with its transaction
    next_uuid,      \* how many UUIDs Uuid::new_v4 has handed out
    save_result     \* what save_courses returned

vars == << unit_input, unit_result, unit_type_result, unit_text, unit_reparsed,
           cmp_a, cmp_b, cmp_result, line, parsed, diag, feed, sp_lines, sp_pos,
           sp_course, sp_comp, sp_title, sp_out, sp_pc, req_shape,
           req_input, req_result, expr, completed, eval_result, simp_result,
           day_input, day_set, day_text, day_reparsed,
           call,
           workers, console,
           db, batches, next_uuid, save_result >>

unitVars == << unit_input, unit_result, unit_type_result, unit_text, unit_reparsed,
              cmp_a, cmp_b, cmp_result >>
parseVars == << unit_input, unit_result, unit_type_result >>
textVars == << unit_text, unit_reparsed >>
cmpVars == << cmp_a, cmp_b, cmp_result >>
lineVars == << line, parsed, diag >>
passVars == << feed, sp_lines, sp_pos, sp_course, sp_comp, sp_title, sp_out, sp_pc >>
reqVars  == << req_shape, req_input, req_result >>
exprVars == << expr, completed, eval_result, simp_result >>
dayVars  == << day_input, day_set, day_text, day_reparsed >>
callVars == << call >>
workerVars == << workers, console >>
dbVars == << db, batches, next_uuid, save_result >>

Pending == [tag |-> "Pending"]

\* no text: the value is built by calls instead of parsed
NoText == [tag |-> "NoText"]

(***************************************************************************)
(* Bytes and strings                                                       *)
(***************************************************************************)
Tab == "\t"

Digits == {"0", "1", "2", "3", "4", "5", "6", "7", "8", "9"}

Uppercase == {"A", "L", "R", "V"}

\* char::is_whitespace, on the bytes of the model's alphabet
IsWhitespace(b) == b \in {" ", Tab}

\* char::is_ascii_digit
IsAsciiDigit(b) == b \in Digits

\* char::is_ascii_uppercase
IsAsciiUppercase(b) == b \in Uppercase

\* the second byte of a two-byte character
IsContinuation(b) == b = "A9"

MinOf(S) == CHOOSE i \in S : \A j \in S : i <= j

MaxOf(S) == CHOOSE i \in S : \A j \in S : j <= i

\* str::trim
Trim(s) ==
    LET keep == {i \in 1..Len(s) : ~IsWhitespace(s[i])}
    IN  IF keep = {} THEN <<>> ELSE SubSeq(s, MinOf(keep), MaxOf(keep))

\* str::trim_end
TrimEnd(s) ==
    LET keep == {i \in 1..Len(s) : ~IsWhitespace(s[i])}
    IN  IF keep = {} THEN <<>> ELSE SubSeq(s, 1, MaxOf(keep))

\* str::contains(char)
Contains(s, b) == \E i \in 1..Len(s) : s[i] = b

\* str::split(char): always at least one field, empty fields are kept
RECURSIVE Split(_, _)
Split(s, sep) ==
    IF ~Contains(s, sep) THEN <<s>>
    ELSE LET k == MinOf({i \in 1..Len(s) : s[i] = sep})
         IN  <<SubSeq(s, 1, k - 1)>> \o Split(SubSeq(s, k + 1, Len(s)), sep)

\* str::split_whitespace: the non-empty runs of non-whitespace
RECURSIVE SplitWhitespace(_)
SplitWhitespace(s) ==
    LET t == Trim(s)
    IN  IF t = <<>> THEN <<>>
        ELSE IF \A i \in 1..Len(t) : ~IsWhitespace(t[i]) THEN <<t>>
        ELSE LET k == MinOf({i \in 1..Len(t) : IsWhitespace(t[i])})
             IN  <<SubSeq(t, 1, k - 1)>> \o SplitWhitespace(SubSeq(t, k + 1, Len(t)))

RECURSIVE Concat(_)
Concat(ss) == IF ss = <<>> THEN <<>> ELSE Head(ss) \o Concat(Tail(ss))

(***************************************************************************)
(* f32                                                                     *)
(*                                                                         *)
(* A value is a number or NaN.  str::parse::<f32> accepts an optional      *)
(* sign followed by decimal digits, and (case-insensitively) "nan"; the    *)
(* other forms it accepts ('+', '.', an exponent, "inf"/"infinity") use    *)
(* characters that are not in the model's alphabet.                        *)
(***************************************************************************)
Num(n) == [nan |-> FALSE, v |-> n]

NaN == [nan |-> TRUE, v |-> 0]

DigitValue(b) ==
    CASE b = "0" -> 0 [] b = "1" -> 1 [] b = "2" -> 2 [] b = "3" -> 3
      [] b = "4" -> 4 [] b = "5" -> 5 [] b = "6" -> 6 [] b = "7" -> 7
      [] b = "8" -> 8 [] b = "9" -> 9

RECURSIVE DecimalValue(_)
DecimalValue(s) ==
    IF s = <<>> THEN 0
    ELSE 10 * DecimalValue(SubSeq(s, 1, Len(s) - 1)) + DigitValue(s[Len(s)])

ParseF32(s) ==
    LET neg  == Len(s) > 0 /\ s[1] = "-"
        body == IF neg THEN Tail(s) ELSE s
    IN  IF body # <<>> /\ \A i \in 1..Len(body) : IsAsciiDigit(body[i])
        THEN [ok |-> TRUE,
              val |-> Num(IF neg THEN 0 - DecimalValue(body) ELSE DecimalValue(body))]
        ELSE IF Len(body) = 3 /\ body[1] \in {"n", "N"} /\ body[2] \in {"a"}
                /\ body[3] \in {"n", "N"}
        THEN [ok |-> TRUE, val |-> NaN]
        ELSE [ok |-> FALSE, val |-> NaN]

\* f32::partial_cmp
F32PartialCmp(a, b) ==
    IF a.nan \/ b.nan THEN "None"
    ELSE IF a.v < b.v THEN "Less"
    ELSE IF a.v = b.v THEN "Equal"
    ELSE "Greater"

(***************************************************************************)
(* Unit parser                                                             *)
(***************************************************************************)
Single(v) == [kind |-> "Single", min |-> v, max |-> v]

Range(lo, hi) == [kind |-> "Range", min |-> lo, max |-> hi]

Multi(units) == [kind |-> "Multi", units |-> units]

\* compare_units (a faulty variant never looks at the maxima)
compare_units_min_only(min_a, max_a, min_b, max_b) == F32PartialCmp(min_a, min_b)

compare_units(min_a, max_a, min_b, max_b) ==
    LET c == F32PartialCmp(min_a, min_b)
    IN  IF c = "Equal" THEN F32PartialCmp(max_a, max_b) ELSE c

\* impl PartialOrd for UnitTypeSimple
SimplePartialCmp(a, b) == compare_units(a.min, a.max, b.min, b.max)

\* the closure handed to sort_by: partial_cmp, Equal when undefined
SortCmp(a, b) ==
    LET c == SimplePartialCmp(a, b) IN IF c = "None" THEN "Equal" ELSE c

\* one insertion of slice::sort_by on a short slice: the last element moves
\* left past every element it is less than
RECURSIVE InsertTail(_, _)
InsertTail(sorted, x) ==
    IF sorted # <<>> /\ SortCmp(x, sorted[Len(sorted)]) = "Less"
    THEN Append(InsertTail(SubSeq(sorted, 1, Len(sorted) - 1), x), sorted[Len(sorted)])
    ELSE Append(sorted, x)

\* slice::sort_by (stable; insertion sort below 21 elements)
RECURSIVE SortUnits(_)
SortUnits(units) ==
    IF Len(units) < 2 THEN units
    ELSE InsertTail(SortUnits(SubSeq(units, 1, Len(units) - 1)), units[Len(units)])

\* "a-b" with both sides numbers: the range, otherwise nothing
ParseRange(s) ==
    LET parts == Split(s, "-")
    IN  IF Len(parts) = 2 /\ ParseF32(parts[1]).ok /\ ParseF32(parts[2]).ok
        THEN <<Range(ParseF32(parts[1]).val, ParseF32(parts[2]).val)>>
        ELSE <<>>

\* the inner loop over the whitespace-separated pieces of one comma part
RECURSIVE ParseSpaceParts(_)
ParseSpaceParts(parts) ==
    IF parts = <<>> THEN <<>>
    ELSE LET p == Head(parts)
             here == IF Contains(p, "-") THEN ParseRange(p)
                     ELSE IF ParseF32(p).ok THEN <<Single(ParseF32(p).val)>>
                     ELSE <<>>
         IN  here \o ParseSpaceParts(Tail(parts))

\* the outer loop over the comma-separated parts
RECURSIVE ParseCommaParts(_)
ParseCommaParts(parts) ==
    IF parts = <<>> THEN <<>>
    ELSE LET part == Trim(Head(parts))
             here == IF part = <<>> THEN <<>>
                     ELSE IF Contains(part, "-") /\ ParseRange(part) # <<>>
                          THEN ParseRange(part)
                     ELSE IF ParseF32(part).ok THEN <<Single(ParseF32(part).val)>>
                     ELSE ParseSpaceParts(SplitWhitespace(part))
         IN  here \o ParseCommaParts(Tail(parts))

\* the units collected before sorting
CollectUnits(s) == ParseCommaParts(Split(Trim(s), ","))

\* the Multi built from the collected units (a faulty variant leaves it unsorted)
UnsortedMulti(units) == Multi(units)

BuildMulti(units) == Multi(SortUnits(units))

\* impl FromStr for UnitType
UnitTypeFromStr(s0) ==
    LET s == Trim(s0)
    IN  IF s = <<>> THEN [tag |-> "Err", err |-> "EmptyInput"]
        ELSE IF ParseF32(s).ok THEN [tag |-> "Ok", val |-> Single(ParseF32(s).val)]
        ELSE IF Contains(s, "-") /\ ~Contains(s, ",") /\ ParseRange(s) # <<>>
             THEN [tag |-> "Ok", val |-> ParseRange(s)[1]]
        ELSE LET simple_units == CollectUnits(s)
             IN  IF simple_units = <<>> THEN [tag |-> "Err", err |-> "NoValidUnits"]
                 ELSE IF Len(simple_units) = 1 THEN [tag |-> "Ok", val |-> simple_units[1]]
                 ELSE [tag |-> "Ok", val |-> BuildMulti(simple_units)]

VAR == [kind |-> "VAR"]

\* impl FromStr for Units
UnitsFromStr(s0) ==
    LET s == Trim(s0)
    IN  IF s = <<>> THEN [tag |-> "Err", err |-> "EmptyInput"]
        ELSE IF s = <<"V", "A", "R">> THEN [tag |-> "Ok", val |-> VAR]
        ELSE UnitTypeFromStr(s)

(***************************************************************************)
(* Unit parser: inputs and actions                                         *)
(***************************************************************************)
MaxUnitTokens == 5

UnitTokens == { <<"4">>, <<"9">>, <<"-">>, <<",">>, <<" ">>,
                <<"n", "a", "n">>, <<"V", "A", "R">> }

RECURSIVE TokenStrings(_, _)
TokenStrings(tokens, n) ==
    IF n = 0 THEN {<<>>}
    ELSE LET shorter == TokenStrings(tokens, n - 1)
         IN  shorter \cup {s \o t : s \in shorter, t \in tokens}

\* Units::from_str(unit_input)
ParseUnits ==
    /\ unit_result = Pending
    /\ unit_result' = UnitsFromStr(unit_input)
    /\ UNCHANGED << unit_input, unit_type_result, textVars, cmpVars >>

\* UnitType::from_str(unit_input)
ParseUnitType ==
    /\ unit_type_result = Pending
    /\ unit_type_result' = UnitTypeFromStr(unit_input)
    /\ UNCHANGED << unit_input, unit_result, textVars, cmpVars >>

(***************************************************************************)
(* Units: ordering and equality                                            *)
(***************************************************************************)
\* f32 ==
F32Eq(a, b) == ~a.nan /\ ~b.nan /\ a.v = b.v

\* #[derive(PartialEq)] for UnitTypeSimple
SimpleEq(a, b) == a.kind = b.kind /\ F32Eq(a.min, b.min) /\ F32Eq(a.max, b.max)

\* #[derive(PartialEq)] for UnitType
UnitTypeEq(a, b) ==
    /\ a.kind = b.kind
    /\ IF a.kind = "Multi"
       THEN /\ Len(a.units) = Len(b.units)
            /\ \A i \in 1..Len(a.units) : SimpleEq(a.units[i], b.units[i])
       ELSE SimpleEq(a, b)

\* #[derive(PartialEq)] for Units
UnitsEq(a, b) ==
    IF a.kind = "VAR" \/ b.kind = "VAR" THEN a.kind = b.kind ELSE UnitTypeEq(a, b)

\* the closure handed to min_by / max_by: partial_cmp, Equal when undefined
FoldCmp(x, y) ==
    LET c == F32PartialCmp(x, y) IN IF c = "None" THEN "Equal" ELSE c

\* Iterator::min_by: the later value only when the earlier one is greater
RECURSIVE MinBy(_)
MinBy(vals) ==
    IF Len(vals) = 1 THEN vals[1]
    ELSE LET x == MinBy(SubSeq(vals, 1, Len(vals) - 1))
             y == vals[Len(vals)]
         IN  IF FoldCmp(x, y) = "Greater" THEN y ELSE x

\* Iterator::max_by: the earlier value only when it is greater
RECURSIVE MaxBy(_)
MaxBy(vals) ==
    IF Len(vals) = 1 THEN vals[1]
    ELSE LET x == MaxBy(SubSeq(vals, 1, Len(vals) - 1))
             y == vals[Len(vals)]
         IN  IF FoldCmp(x, y) = "Greater" THEN x ELSE y

\* UnitType::min_value
min_value(u) ==
    IF u.kind = "Multi"
    THEN IF u.units = <<>> THEN Num(0)
         ELSE MinBy([i \in 1..Len(u.units) |-> u.units[i].min])
    ELSE u.min

\* UnitType::max_value
max_value(u) ==
    IF u.kind = "Multi"
    THEN IF u.units = <<>> THEN Num(0)
         ELSE MaxBy([i \in 1..Len(u.units) |-> u.units[i].max])
    ELSE u.max

\* impl PartialOrd for UnitType
UnitTypePartialCmp(a, b) ==
    compare_units(min_value(a), max_value(a), min_value(b), max_value(b))

\* impl PartialOrd for Units
UnitsPartialCmp(a, b) ==
    IF a.kind = "VAR" /\ b.kind = "VAR" THEN "Equal"
    ELSE IF a.kind = "VAR" THEN "Greater"
    ELSE IF b.kind = "VAR" THEN "Less"
    ELSE UnitTypePartialCmp(a, b)

(***************************************************************************)
(* Units: Display                                                          *)
(*                                                                         *)
(* The numbers of the model are whole, so value.fract() == 0.0 holds of    *)
(* every number and fails only of NaN; they stay far below 2^24, where     *)
(* f32 holds every whole number exactly and `as i32` changes nothing.      *)
(***************************************************************************)
DigitChar(d) ==
    CASE d = 0 -> "0" [] d = 1 -> "1" [] d = 2 -> "2" [] d = 3 -> "3"
      [] d = 4 -> "4" [] d = 5 -> "5" [] d = 6 -> "6" [] d = 7 -> "7"
      [] d = 8 -> "8" [] d = 9 -> "9"

RECURSIVE DecimalText(_)
DecimalText(n) ==
    IF n < 10 THEN <<DigitChar(n)>>
    ELSE DecimalText(n \div 10) \o <<DigitChar(n % 10)>>

\* write!(f, "{}", value as i32) for a whole number
IntegerText(n) == IF n < 0 THEN <<"-">> \o DecimalText(0 - n) ELSE DecimalText(n)

\* write!(f, "{value}") of an f32
F32Text(x) == IF x.nan THEN <<"N", "a", "N">> ELSE IntegerText(x.v)

\* value.fract() == 0.0
IsWhole(x) == ~x.nan

\* Display for UnitTypeSimple, and the Single and Range arms of Display for
\* UnitType (a faulty variant writes only the minimum of a range)
SimpleDisplayMinOnly(u) == F32Text(u.min)

SimpleDisplay(u) ==
    IF u.kind = "Single"
    THEN (IF IsWhole(u.min) THEN IntegerText(u.min.v) ELSE F32Text(u.min))
    ELSE IF IsWhole(u.min) /\ IsWhole(u.max)
         THEN IntegerText(u.min.v) \o <<"-">> \o IntegerText(u.max.v)
         ELSE F32Text(u.min) \o <<"-">> \o F32Text(u.max)

\* the Multi arm of Display for UnitType: the units joined by commas
RECURSIVE JoinUnits(_)
JoinUnits(units) ==
    IF units = <<>> THEN <<>>
    ELSE IF Len(units) = 1 THEN SimpleDisplay(units[1])
    ELSE SimpleDisplay(units[1]) \o <<",">> \o JoinUnits(Tail(units))

\* Display for UnitType
UnitTypeDisplay(u) == IF u.kind = "Multi" THEN JoinUnits(u.units) ELSE SimpleDisplay(u)

\* Display for Units
UnitsDisplay(u) == IF u.kind = "VAR" THEN <<"V", "A", "R">> ELSE UnitTypeDisplay(u)

(***************************************************************************)
(* Units: texts of whole numbers and ranges below 100                      *)
(***************************************************************************)
MaxListed == 3

ListedTokens ==
    { <<"0">>, <<"9">>, <<"1", "2">>, <<"1", "8">>, <<"2", "4">>,
      <<"3", "-", "9">>, <<"3", "-", "1", "2">> }

\* n tokens, each but the first after a comma or a space
RECURSIVE ListedTexts(_)
ListedTexts(n) ==
    IF n = 1 THEN ListedTokens
    ELSE {s \o sep \o t : s \in ListedTexts(n - 1), sep \in {<<",">>, <<" ">>},
                          t \in ListedTokens}

UnitTexts == {<<"V", "A", "R">>} \cup UNION { ListedTexts(n) : n \in 1..MaxListed }

Text(s) == [tag |-> "Text", text |-> s]

\* unit_result.to_string()
DisplayUnits ==
    /\ unit_result # Pending
    /\ unit_result.tag = "Ok"
    /\ unit_text = Pending
    /\ unit_text' = Text(UnitsDisplay(unit_result.val))
    /\ UNCHANGED << parseVars, unit_reparsed, cmpVars >>

\* Units::from_str(&unit_text)
ReparseUnits ==
    /\ unit_text # Pending
    /\ unit_reparsed = Pending
    /\ unit_reparsed' = UnitsFromStr(unit_text.text)
    /\ UNCHANGED << parseVars, unit_text, cmpVars >>

(***************************************************************************)
(* Units: the values compared                                              *)
(***************************************************************************)
MaxMultiLen == 2

UnitNumbers == {Num(4), Num(9)}

SimpleValues ==
    {Single(v) : v \in UnitNumbers \cup {NaN}}
        \cup {Range(lo, hi) : lo \in UnitNumbers, hi \in UnitNumbers}

MultiValues ==
    UNION { {Multi(us) : us \in [1..n -> SimpleValues]} : n \in 2..MaxMultiLen }

UnitsValues == {VAR} \cup SimpleValues \cup MultiValues

\* cmp_a.partial_cmp(&cmp_b) and cmp_a == cmp_b
CompareUnits ==
    /\ cmp_result = Pending
    /\ cmp_result' = [tag |-> "Compared", ord |-> UnitsPartialCmp(cmp_a, cmp_b),
                      eq |-> UnitsEq(cmp_a, cmp_b)]
    /\ UNCHANGED << parseVars, textVars, cmp_a, cmp_b >>

(***************************************************************************)
(* DaySet: a u8 with one bit per day                                       *)
(***************************************************************************)
\* u8 | and u8 &, bit by bit
RECURSIVE BitOr(_, _)
BitOr(a, b) ==
    IF a = 0 THEN b
    ELSE IF b = 0 THEN a
    ELSE 2 * BitOr(a \div 2, b \div 2) + (IF a % 2 = 1 \/ b % 2 = 1 THEN 1 ELSE 0)

RECURSIVE BitAnd(_, _)
BitAnd(a, b) ==
    IF a = 0 \/ b = 0 THEN 0
    ELSE 2 * BitAnd(a \div 2, b \div 2) + (IF a % 2 = 1 /\ b % 2 = 1 THEN 1 ELSE 0)

DaySet(bits) == [tag |-> "DaySet", bits |-> bits]

\* DaySet::DAY_CHARS (a faulty table lists the days from Sunday back)
DAY_CHARS_REVERSED ==
    << <<64, "U">>, <<32, "S">>, <<16, "F">>, <<8, "R">>, <<4, "W">>,
       <<2, "T">>, <<1, "M">> >>

DAY_CHARS ==
    << <<1, "M">>, <<2, "T">>, <<4, "W">>, <<8, "R">>, <<16, "F">>,
       <<32, "S">>, <<64, "U">> >>

\* DaySet::contains
DaySetContains(bits, day) == BitAnd(bits, day) = day

\* the inner loop of from_str: the bit of the first entry whose char is c
DayBit(c) ==
    LET hits == {k \in 1..Len(DAY_CHARS) : DAY_CHARS[k][2] = c}
    IN  IF hits = {} THEN 0 ELSE DAY_CHARS[MinOf(hits)][1]

\* DaySet::from_str: every char of a day sets its bit, other chars are
\* passed over; it has no failure
RECURSIVE DaySetBits(_)
DaySetBits(days) ==
    IF days = <<>> THEN 0
    ELSE BitOr(DaySetBits(SubSeq(days, 1, Len(days) - 1)), DayBit(days[Len(days)]))

DaySetFromStr(days) == [tag |-> "Ok", val |-> DaySet(DaySetBits(days))]

\* Display for DaySet: the chars of the days it contains, in table order
RECURSIVE DaySetDisplayFrom(_, _)
DaySetDisplayFrom(bits, k) ==
    IF k > Len(DAY_CHARS) THEN <<>>
    ELSE (IF DaySetContains(bits, DAY_CHARS[k][1]) THEN <<DAY_CHARS[k][2]>> ELSE <<>>)
         \o DaySetDisplayFrom(bits, k + 1)

DaySetDisplay(set) == DaySetDisplayFrom(set.bits, 1)

MaxDayLetters == 3

DayLetters == {"M", "T", "W", "R", "F", "S", "U", "x"}

RECURSIVE DayTexts(_)
DayTexts(n) ==
    IF n = 0 THEN {<<>>}
    ELSE DayTexts(n - 1) \cup {Append(s, c) : s \in DayTexts(n - 1), c \in DayLetters}

\* DaySet::new()
NewDaySet ==
    /\ day_input = NoText
    /\ day_set = Pending
    /\ day_set' = DaySet(0)
    /\ UNCHANGED << day_input, day_text, day_reparsed >>

\* day_set.add(day)
AddDay ==
    /\ day_input = NoText
    /\ day_set # Pending
    /\ day_text = Pending
    /\ \E k \in 1..Len(DAY_CHARS) :
          day_set' = DaySet(BitOr(day_set.bits, DAY_CHARS[k][1]))
    /\ UNCHANGED << day_input, day_text, day_reparsed >>

\* DaySet::from_str(day_input)
ParseDays ==
    /\ day_input # NoText
    /\ day_set = Pending
    /\ day_set' = DaySetFromStr(day_input.text).val
    /\ UNCHANGED << day_input, day_text, day_reparsed >>

\* day_set.to_string()
DisplayDays ==
    /\ day_set # Pending
    /\ day_text = Pending
    /\ day_text' = Text(DaySetDisplay(day_set))
    /\ UNCHANGED << day_input, day_set, day_reparsed >>

\* DaySet::from_str(&day_text)
ReparseDays ==
    /\ day_text # Pending
    /\ day_reparsed = Pending
    /\ day_reparsed' = DaySetFromStr(day_text.text)
    /\ UNCHANGED << day_input, day_set, day_text >>

(***************************************************************************)
(* DaySet: mutators and operators                                          *)
(***************************************************************************)
\* u8 ! : every one of the eight bits flipped
BitNot8(a) == 255 - a

\* Not for DaySet (a faulty variant leaves out the mask)
DaySetNotUnmasked(bits) == BitNot8(bits)

DaySetNot(bits) == BitAnd(BitNot8(bits), 127)

\* DaySet::add: *self |= day
DaySetAdd(bits, day) == BitOr(bits, day)

\* DaySet::remove: *self &= !day (a faulty variant leaves out the !)
DaySetRemoveKeeping(bits, day) == BitAnd(bits, day)

DaySetRemove(bits, day) == BitAnd(bits, DaySetNot(day))

\* DaySet::set
DaySetSet(bits, day, value) ==
    IF value THEN BitOr(bits, day) ELSE BitAnd(bits, DaySetNot(day))

\* MONDAY .. SUNDAY, WEEKDAYS, WEEKEND, ALL, NONE
MONDAY == 1
TUESDAY == 2
WEDNESDAY == 4
THURSDAY == 8
FRIDAY == 16
SATURDAY == 32
SUNDAY == 64
WEEKDAYS == 31
WEEKEND == 96
ALL == 127
NONE == 0

SingleDays == {MONDAY, TUESDAY, WEDNESDAY, THURSDAY, FRIDAY, SATURDAY, SUNDAY}

DayConstants == SingleDays \cup {WEEKDAYS, WEEKEND, ALL, NONE}

Called(op, self, arg, value) == [op |-> op, self |-> self, arg |-> arg, value |-> value]

\* a DaySet to start from: a constant, or DaySet::from_str of a text
StartDaySet ==
    /\ day_set = Pending
    /\ \/ \E c \in DayConstants :
             /\ day_set' = DaySet(c)
             /\ call' = Called("const", c, c, c)
       \/ \E t \in DayTexts(MaxDayLetters) :
             /\ day_set' = DaySetFromStr(t).val
             /\ call' = Called("from_str", 0, t, DaySetBits(t))
    /\ UNCHANGED << day_input, day_text, day_reparsed >>

\* day_set.add(day), day_set.remove(day), day_set.set(day, value)
MutateDaySet ==
    /\ day_set # Pending
    /\ \E day \in DayConstants :
          \/ /\ day_set' = DaySet(DaySetAdd(day_set.bits, day))
             /\ call' = Called("add", day_set.bits, day, day_set'.bits)
          \/ /\ day_set' = DaySet(DaySetRemove(day_set.bits, day))
             /\ call' = Called("remove", day_set.bits, day, day_set'.bits)
          \/ \E value \in BOOLEAN :
                /\ day_set' = DaySet(DaySetSet(day_set.bits, day, value))
                /\ call' = Called(IF value THEN "set_true" ELSE "set_false",
                                  day_set.bits, day, day_set'.bits)
    /\ UNCHANGED << day_input, day_text, day_reparsed >>

\* day_set | rhs, day_set & rhs (and |=, &=, which store the same value)
CombineDaySet ==
    /\ day_set # Pending
    /\ \E rhs \in DayConstants :
          \/ /\ day_set' = DaySet(BitOr(day_set.bits, rhs))
             /\ call' = Called("or", day_set.bits, rhs, day_set'.bits)
          \/ /\ day_set' = DaySet(BitAnd(day_set.bits, rhs))
             /\ call' = Called("and", day_set.bits, rhs, day_set'.bits)
    /\ UNCHANGED << day_input, day_text, day_reparsed >>

\* !day_set
ComplementDaySet ==
    /\ day_set # Pending
    /\ day_set' = DaySet(DaySetNot(day_set.bits))
    /\ call' = Called("not", day_set.bits, 0, day_set'.bits)
    /\ UNCHANGED << day_input, day_text, day_reparsed >>

\* day_set.contains(x)
ContainsDaySet ==
    /\ day_set # Pending
    /\ \E x \in DayConstants :
          call' = Called("contains", day_set.bits, x, DaySetContains(day_set.bits, x))
    /\ UNCHANGED dayVars

(***************************************************************************)
(* Days: the days field of a meeting                                       *)
(***************************************************************************)
\* str::contains(pat): pat occurs somewhere in s
ContainsStr(s, pat) ==
    \E i \in 1..(Len(s) - Len(pat) + 1) : SubSeq(s, i, i + Len(pat) - 1) = pat

DaysTBA == [tag |-> "TBA"]

DaysOf(set) == [tag |-> "Days", set |-> set]

\* Days::from_str
DaysFromStr(days) ==
    IF ContainsStr(days, <<"T", "B", "A">>)
    THEN [tag |-> "Ok", val |-> DaysTBA]
    ELSE [tag |-> "Ok", val |-> DaysOf(DaySetFromStr(days).val)]

MaxDaysLetters == 4

DaysLetters == {"T", "B", "A", "M", " "}

RECURSIVE DaysTexts(_)
DaysTexts(n) ==
    IF n = 0 THEN {<<>>}
    ELSE DaysTexts(n - 1) \cup {Append(s, c) : s \in DaysTexts(n - 1), c \in DaysLetters}

\* Days::from_str(day_input)
ParseDaysField ==
    /\ call = Pending
    /\ call' = Called("Days::from_str", 0, day_input.text, DaysFromStr(day_input.text))
    /\ UNCHANGED dayVars

(***************************************************************************)
(* TimeRange                                                               *)
(*                                                                         *)
(* A NaiveTime is its number of seconds since midnight.                    *)
(***************************************************************************)
TimeOk(secs) == [tag |-> "Ok", secs |-> secs]

TimeErr == [tag |-> "Err"]

\* how many of the first bytes of s, at most two, are digits
DigitRun(s) ==
    IF Len(s) >= 2 /\ IsAsciiDigit(s[1]) /\ IsAsciiDigit(s[2]) THEN 2
    ELSE IF Len(s) >= 1 /\ IsAsciiDigit(s[1]) THEN 1
    ELSE 0

\* str::trim_start
TrimStart(s) ==
    LET keep == {i \in 1..Len(s) : ~IsWhitespace(s[i])}
    IN  IF keep = {} THEN <<>> ELSE SubSeq(s, MinOf(keep), Len(s))

\* the %p item: AM or PM in either case
Meridiem(s) ==
    IF Len(s) < 2 THEN "none"
    ELSE IF s[1] \in {"A", "a"} /\ s[2] \in {"M", "m"} THEN "am"
    ELSE IF s[1] \in {"P", "p"} /\ s[2] \in {"M", "m"} THEN "pm"
    ELSE "none"

\* NaiveTime::parse_from_str(s, "%I:%M%p"): an hour of the 12-hour clock in
\* one or two digits, a colon, a minute in one or two digits, AM or PM, and
\* nothing after it; 12 AM is midnight and 12 PM is noon
ParseTime(s) ==
    LET s1 == TrimStart(s)
        n1 == DigitRun(s1)
        hour == DecimalValue(SubSeq(s1, 1, n1))
        s2 == SubSeq(s1, n1 + 1, Len(s1))
        s3 == TrimStart(Tail(s2))
        n2 == DigitRun(s3)
        minute == DecimalValue(SubSeq(s3, 1, n2))
        s4 == SubSeq(s3, n2 + 1, Len(s3))
    IN  IF n1 = 0 \/ hour \notin 1..12 THEN TimeErr
        ELSE IF s2 = <<>> \/ s2[1] # ":" THEN TimeErr
        ELSE IF n2 = 0 \/ minute > 59 THEN TimeErr
        ELSE IF Meridiem(s4) = "none" \/ Len(s4) > 2 THEN TimeErr
        ELSE TimeOk(((hour % 12) + (IF Meridiem(s4) = "pm" THEN 12 ELSE 0)) * 3600
                    + minute * 60)

NoRange == [tag |-> "None"]

SomeRange(begin, end) == [tag |-> "Some", begin |-> begin, end |-> end]

\* TimeRange::new (a faulty variant lets begin = end through)
TimeRangeNewAllowingEqual(begin, end) ==
    IF begin <= end THEN SomeRange(begin, end) ELSE NoRange

TimeRangeNew(begin, end) ==
    IF begin < end THEN SomeRange(begin, end) ELSE NoRange

\* TimeRange::from_strings: each .ok()? returns None on a parse error
TimeRangeFromStrings(begin, end) ==
    LET b == ParseTime(begin)
        e == ParseTime(end)
    IN  IF b.tag # "Ok" THEN NoRange
        ELSE IF e.tag # "Ok" THEN NoRange
        ELSE TimeRangeNew(b.secs, e.secs)

TimeTokens ==
    { <<"0", "9", ":", "3", "0", "A", "M">>,
      <<"1", "0", ":", "5", "0", "A", "M">>,
      <<"1", "1", ":", "0", "0", "A", "M">>,
      <<"0", "9", ":", "0", "0", "A", "M">>,
      <<"1", "2", ":", "0", "0", "A", "M">>,
      <<"1", "2", ":", "0", "0", "P", "M">>,
      <<"0", "1", ":", "0", "0", "P", "M">>,
      <<"9", ":", "3", "0", "a", "m">>,
      <<"0", "9", ":", "3", "0">>,
      <<"1", "3", ":", "0", "0", "P", "M">>,
      <<"0", "9", ":", "6", "0", "A", "M">>,
      <<"x">>,
      <<>>,
      <<"0", "9", ":", "3", "0", "A", "M", "x">> }

\* the times handed to TimeRange::new: 00:00:00, 09:00:00, 09:00:01,
\* 12:00:00, 23:59:59
SampleTimes == {0, 32400, 32401, 43200, 86399}

\* TimeRange::new(begin, end)
NewTimeRange ==
    /\ call = Pending
    /\ \E begin \in SampleTimes, end \in SampleTimes :
          call' = Called("TimeRange::new", 0, <<begin, end>>, TimeRangeNew(begin, end))
    /\ UNCHANGED dayVars

\* TimeRange::from_strings(begin, end)
TimeRangeOfStrings ==
    /\ call = Pending
    /\ \E begin \in TimeTokens, end \in TimeTokens :
          call' = Called("TimeRange::from_strings", 0, <<begin, end>>,
                         TimeRangeFromStrings(begin, end))
    /\ UNCHANGED dayVars

(***************************************************************************)
(* BuildingRoom                                                            *)
(***************************************************************************)
\* the variants that EnumIter goes through, each with its "parse" property
\* (Specific has none)
SentinelPhrases ==
    << <<"ToBeAnnounced", <<"T", "B", "A">>>>,
       <<"ToBeDetermined", <<"T", "B", "D", " ", "T", "B", "D">>>>,
       <<"DoesNotMeet", <<"D", "N", "M", " ", "D", "N", "M">>>>,
       <<"OffPitt", <<"O", "F", "F", " ", "P", "I", "T", "T">>>>,
       <<"Remote", <<"C", "M", "U", " ", "R", "E", "M", "O", "T", "E">>>> >>

Sentinel(variant) == [tag |-> "Ok", val |-> [variant |-> variant]]

Specific(building, room) ==
    [tag |-> "Ok", val |-> [variant |-> "Specific", building |-> building, room |-> room]]

\* [&str]::join(" ")
RECURSIVE JoinSpace(_)
JoinSpace(parts) ==
    IF parts = <<>> THEN <<>>
    ELSE IF Len(parts) = 1 THEN parts[1]
    ELSE parts[1] \o <<" ">> \o JoinSpace(Tail(parts))

\* the or_else closure: the first word, and the other words joined
SpecificOf(bldg_room) ==
    LET parts == SplitWhitespace(bldg_room)
    IN  Specific(IF parts = <<>> THEN <<>> ELSE parts[1],
                 IF parts = <<>> THEN <<>> ELSE JoinSpace(Tail(parts)))

\* BuildingRoom::from_str: the first variant whose "parse" property is the
\* input, or else Specific; ok_or never sees a None
BuildingRoomFromStr(bldg_room) ==
    LET hits == {k \in 1..Len(SentinelPhrases) : SentinelPhrases[k][2] = bldg_room}
    IN  IF hits # {} THEN Sentinel(SentinelPhrases[MinOf(hits)][1])
        ELSE SpecificOf(bldg_room)

MaxRoomPieces == 4

RoomPieces == {<<"G", "H", "C">>, <<"A", "R">>, <<"2", "5", "4">>, <<" ">>}

RECURSIVE PieceTexts(_)
PieceTexts(n) ==
    IF n = 0 THEN {<<>>}
    ELSE PieceTexts(n - 1) \cup {t \o w : t \in PieceTexts(n - 1), w \in RoomPieces}

RoomTexts ==
    PieceTexts(MaxRoomPieces)
    \cup {SentinelPhrases[k][2] : k \in 1..Len(SentinelPhrases)}
    \cup {SentinelPhrases[k][2] \o <<" ">> : k \in 1..Len(SentinelPhrases)}
    \cup {<<"t", "b", "a">>, <<"T", "B", "D">>, <<"C", "U", "C", " ", "A", "R", " ", "2", "5", "4">>, <<"C", "U", "C", " ", "A", "R", " ", " ", "2", "5", "4">>}

\* BuildingRoom::from_str(bldg_room)
ParseBuildingRoom ==
    /\ call = Pending
    /\ \E bldg_room \in RoomTexts :
          call' = Called("BuildingRoom::from_str", 0, bldg_room,
                         BuildingRoomFromStr(bldg_room))
    /\ UNCHANGED dayVars

(***************************************************************************)
(* save_courses: batches saved concurrently, each in its own transaction   *)
(*                                                                         *)
(* A CourseObject is its components, a component the instructor names of   *)
(* its meetings.  A UUID is the number of the Uuid::new_v4 call that made  *)
(* it.  A statement of a transaction reads the committed rows and the rows *)
(* the transaction wrote itself; a statement that breaks the foreign key   *)
(* fk-components-course_id fails, and a transaction dropped before commit  *)
(* is rolled back.  The meetings and instructor_meetings rows, which are   *)
(* inserted after the components, are left out.                            *)
(***************************************************************************)
MaxBatches == 2

MaxBatchCourses == 1

InstructorNames == {"a", "b"}

\* a row the instructors table may hold before save_courses runs
StoredInstructor == [id |-> 0, name |-> "a"]

CourseObjects ==
    {[components |-> <<>>]}
    \cup {[components |-> <<[instructors |-> names]>>] : names \in SUBSET InstructorNames}

RECURSIVE CourseBatches(_)
CourseBatches(n) ==
    IF n = 0 THEN {<<>>}
    ELSE CourseBatches(n - 1)
         \cup {Append(cs, c) : cs \in CourseBatches(n - 1), c \in CourseObjects}

NoRows == [courses |-> {}, components |-> {}, instructors |-> {}]

Batch(course_objs) ==
    [course_objs |-> course_objs, pc |-> "begin", missing |-> {}, cache |-> {},
     course_ids |-> <<>>, all_courses |-> <<>>, all_components |-> <<>>, txn |-> NoRows]

\* the instructor names of a batch (the first loop of build_instructor_cache)
RECURSIVE NamesOf(_)
NamesOf(course_objs) ==
    IF course_objs = <<>> THEN {}
    ELSE NamesOf(Tail(course_objs))
         \cup UNION {Head(course_objs).components[k].instructors :
                        k \in 1..Len(Head(course_objs).components)}

\* the "prepare" loop of save_course_batch: for each course a course_id, then
\* the row of course_to_active_model with the id it draws itself, then one id
\* per component, whose row carries course_id
RECURSIVE PrepareRows(_, _)
PrepareRows(course_objs, next) ==
    IF course_objs = <<>>
    THEN [course_ids |-> <<>>, all_courses |-> <<>>, all_components |-> <<>>, next |-> next]
    ELSE LET course_id == next + 1
             row_id == next + 2
             n == Len(Head(course_objs).components)
             comps == [k \in 1..n |-> [id |-> next + 2 + k, course_id |-> course_id]]
             rest == PrepareRows(Tail(course_objs), next + 2 + n)
         IN  [course_ids |-> <<course_id>> \o rest.course_ids,
              all_courses |-> <<[id |-> row_id]>> \o rest.all_courses,
              all_components |-> comps \o rest.all_components,
              next |-> rest.next]

RowSet(rows) == {rows[k] : k \in 1..Len(rows)}

\* db.begin()
BeginBatch(b) ==
    /\ save_result = Pending
    /\ batches[b].pc = "begin"
    /\ batches' = [batches EXCEPT ![b].pc = "lookup"]
    /\ UNCHANGED << db, next_uuid, save_result >>

\* build_instructor_cache: the names of the batch and the find() of the rows
\* that have one of them
LookupInstructors(b) ==
    /\ save_result = Pending
    /\ batches[b].pc = "lookup"
    /\ LET names == NamesOf(batches[b].course_objs)
           existing == {r \in db.instructors \cup batches[b].txn.instructors :
                           r.name \in names}
       IN  batches' = [batches EXCEPT
               ![b].cache = existing,
               ![b].missing = names \ {r.name : r \in existing},
               ![b].pc = "instructors"]
    /\ UNCHANGED << db, next_uuid, save_result >>

\* build_instructor_cache: the insert of one name that find() did not return
InsertInstructor(b) ==
    /\ save_result = Pending
    /\ batches[b].pc = "instructors"
    /\ \E name \in batches[b].missing :
          LET row == [id |-> next_uuid + 1, name |-> name]
          IN  batches' = [batches EXCEPT
                  ![b].txn.instructors = @ \cup {row},
                  ![b].cache = @ \cup {row},
                  ![b].missing = @ \ {name}]
    /\ next_uuid' = next_uuid + 1
    /\ UNCHANGED << db, save_result >>

\* save_course_batch: the prepare loop and the insert_many of the courses
InsertCourses(b) ==
    /\ save_result = Pending
    /\ batches[b].pc = "instructors"
    /\ batches[b].missing = {}
    /\ LET rows == PrepareRows(batches[b].course_objs, next_uuid)
       IN  /\ batches' = [batches EXCEPT
                  ![b].course_ids = rows.course_ids,
                  ![b].all_courses = rows.all_courses,
                  ![b].all_components = rows.all_components,
                  ![b].txn.courses = @ \cup RowSet(rows.all_courses),
                  ![b].pc = "components"]
           /\ next_uuid' = rows.next
    /\ UNCHANGED << db, save_result >>

\* save_course_batch: the insert_many of the components, which the foreign
\* key lets through only when every course_id is the id of a courses row
InsertComponents(b) ==
    /\ save_result = Pending
    /\ batches[b].pc = "components"
    /\ LET visible == {r.id : r \in db.courses \cup batches[b].txn.courses}
           rows == RowSet(batches[b].all_components)
       IN  IF \A r \in rows : r.course_id \in visible
           THEN batches' = [batches EXCEPT ![b].txn.components = @ \cup rows,
                                           ![b].pc = "commit"]
           ELSE batches' = [batches EXCEPT ![b].txn = NoRows, ![b].pc = "failed"]
    /\ UNCHANGED << db, next_uuid, save_result >>

\* txn.commit() and Ok(course_ids)
CommitBatch(b) ==
    /\ save_result = Pending
    /\ batches[b].pc = "commit"
    /\ db' = [courses |-> db.courses \cup batches[b].txn.courses,
              components |-> db.components \cup batches[b].txn.components,
              instructors |-> db.instructors \cup batches[b].txn.instructors]
    /\ batches' = [batches EXCEPT ![b].pc = "done"]
    /\ UNCHANGED << next_uuid, save_result >>

\* try_join_all: Ok with the ids of all batches in order once every batch
\* has returned Ok
RECURSIVE AllCourseIds(_)
AllCourseIds(k) ==
    IF k = 0 THEN <<>> ELSE AllCourseIds(k - 1) \o batches[k].course_ids

SaveCoursesOk ==
    /\ save_result = Pending
    /\ \A b \in DOMAIN batches : batches[b].pc = "done"
    /\ save_result' = [tag |-> "Ok", ids |-> AllCourseIds(Len(batches))]
    /\ UNCHANGED << db, batches, next_uuid >>

\* try_join_all: Err as soon as one batch has returned Err; the batches still
\* running are dropped, and their transactions with them
SaveCoursesErr ==
    /\ save_result = Pending
    /\ \E b \in DOMAIN batches : batches[b].pc = "failed"
    /\ save_result' = [tag |-> "Err"]
    /\ batches' = [b \in DOMAIN batches |->
                      IF batches[b].pc \in {"done", "failed"} THEN batches[b]
                      ELSE [batches[b] EXCEPT !.txn = NoRows, !.pc = "dropped"]]
    /\ UNCHANGED << db, next_uuid >>

(***************************************************************************)
(* Line classifier                                                         *)
(***************************************************************************)
\* is_course_number: five bytes, all ASCII digits
is_course_number(s) == Len(s) = 5 /\ \A i \in 1..Len(s) : IsAsciiDigit(s[i])

\* is_section_code: the first character is an uppercase ASCII letter
is_section_code(s) == Len(s) > 0 /\ IsAsciiUppercase(s[1])

\* line.chars().take_while(|c| c == '\t').count()
leading_tabs(l) ==
    IF \A i \in 1..Len(l) : l[i] = Tab THEN Len(l)
    ELSE MinOf({i \in 1..Len(l) : l[i] # Tab}) - 1

\* Units::from_str(units).is_ok()
UnitsOk(s) == UnitsFromStr(s).tag = "Ok"

\* the guard of the CourseHeader arm: [number, title] (a faulty variant matches
\* [number, title, ..])
CourseHeaderArmPrefix(fields) ==
    Len(fields) >= 2 /\ is_course_number(fields[1])

CourseHeaderArm(fields) ==
    Len(fields) = 2 /\ is_course_number(fields[1])

\* the guard of the AdditionalMeeting arm: [days, time_start, time_end,
\* building_room, location, ..] (a faulty variant asks for a sixth field)
AdditionalMeetingArmSix(fields) == Len(fields) >= 6

AdditionalMeetingArm(fields) == Len(fields) >= 5

\* the match of parse_line over the fields, arm by arm
MatchFields(l, fields, tabs) ==
    IF Len(fields) = 1 /\ tabs = 1
    THEN [kind |-> "Department", name |-> fields[1]]
    ELSE IF CourseHeaderArm(fields)
    THEN [kind |-> "CourseHeader", number |-> fields[1], title |-> Trim(fields[2])]
    ELSE IF Len(fields) >= 3 /\ is_course_number(fields[1]) /\ UnitsOk(fields[3])
    THEN [kind |-> "SecondaryCourseHeader", number |-> fields[1],
          title |-> Trim(fields[2]), units |-> fields[3]]
    ELSE IF Len(fields) >= 8 /\ UnitsOk(fields[1])
    THEN [kind |-> "PrimaryCourseComponent", units |-> fields[1],
          section |-> fields[2], days |-> fields[3], time_start |-> fields[4],
          time_end |-> fields[5], building_room |-> fields[6],
          location |-> fields[7], instructors |-> fields[8]]
    ELSE IF Len(fields) >= 7 /\ is_section_code(fields[1])
    THEN [kind |-> "SecondaryCourseComponent", section |-> fields[1],
          days |-> fields[2], time_start |-> fields[3], time_end |-> fields[4],
          building_room |-> fields[5], location |-> fields[6],
          instructors |-> fields[7]]
    ELSE IF AdditionalMeetingArm(fields)
    THEN [kind |-> "AdditionalMeeting", days |-> fields[1],
          time_start |-> fields[2], time_end |-> fields[3],
          building_room |-> fields[4], location |-> fields[5]]
    ELSE IF Len(fields) = 1 /\ tabs = 2
    THEN [kind |-> "ComponentTitle", title |-> fields[1]]
    ELSE [kind |-> "Unknown", raw |-> l]

\* parse_line
parse_line(l) ==
    LET trimmed == Trim(l)
    IN  IF trimmed = <<>> THEN [kind |-> "Empty"]
        ELSE MatchFields(l, Split(trimmed, Tab), leading_tabs(l))

\* what parse_line prints for the line (a faulty variant prints every line
\* that is not blank)
parse_line_output_every_line(l) ==
    IF parse_line(l).kind = "Empty" THEN <<>> ELSE <<l>>

parse_line_output(l) ==
    IF parse_line(l).kind = "Unknown" THEN <<l>> ELSE <<>>

(***************************************************************************)
(* Line classifier: inputs and actions                                     *)
(***************************************************************************)
MaxLeadTabs == 3

MaxFields == 9

FirstTokens == { <<"1", "5", "1", "2", "2">>, <<"1", "5", "1", "2">>,
                 <<"1", "5", "1", "2", "2", "3">>, <<"A", "5", "1", "2", "2">>,
                 <<"9">>, <<"V", "A", "R">>, <<"L", "e", "c">>, <<"x">> }

SecondTokens == { <<"x">>, <<" ", "x">> }

ThirdTokens == { <<"9">>, <<"3", "-", "9">>, <<"x">>, <<>> }

Filler == <<"x">>

RECURSIVE Tabs(_)
Tabs(n) == IF n = 0 THEN <<>> ELSE <<Tab>> \o Tabs(n - 1)

\* the fields joined by tabs
RECURSIVE JoinTabs(_)
JoinTabs(fields) ==
    IF fields = <<>> THEN <<>>
    ELSE IF Len(fields) = 1 THEN fields[1]
    ELSE fields[1] \o <<Tab>> \o JoinTabs(Tail(fields))

SampleFields(n, f1, f2, f3) ==
    [i \in 1..n |-> IF i = 1 THEN f1 ELSE IF i = 2 THEN f2
                    ELSE IF i = 3 THEN f3 ELSE Filler]

SampleLines ==
    { Tabs(t) \o JoinTabs(SampleFields(n, f1, f2, f3)) \o tail :
        t \in 0..MaxLeadTabs, n \in 0..MaxFields, f1 \in FirstTokens,
        f2 \in SecondTokens, f3 \in ThirdTokens, tail \in {<<>>, <<" ">>} }

\* parse_line(line)
ClassifyLine ==
    /\ parsed = Pending
    /\ parsed' = parse_line(line)
    /\ diag' = diag \o parse_line_output(line)
    /\ UNCHANGED line

(***************************************************************************)
(* Requisite expressions: evaluate and simplify                            *)
(***************************************************************************)
Course(number) == [op |-> "Course", num |-> number]

And(left, right) == [op |-> "And", l |-> left, r |-> right]

Or(left, right) == [op |-> "Or", l |-> left, r |-> right]

None == [tag |-> "None"]

Some(e) == [tag |-> "Some", tree |-> e]

\* the Course arm of evaluate
EvaluateCourse(number, completed_courses) == number \in completed_courses

\* the And arm of evaluate (a faulty variant combines the sides as Or does)
EvaluateAndAsOr(left, right) == left \/ right

EvaluateAnd(left, right) == left /\ right

\* the Or arm of evaluate (a faulty variant combines the sides as And does)
EvaluateOrAsAnd(left, right) == left /\ right

EvaluateOr(left, right) == left \/ right

\* Expr::evaluate
RECURSIVE evaluate(_, _)
evaluate(e, completed_courses) ==
    IF e.op = "Course" THEN EvaluateCourse(e.num, completed_courses)
    ELSE IF e.op = "And"
    THEN EvaluateAnd(evaluate(e.l, completed_courses), evaluate(e.r, completed_courses))
    ELSE EvaluateOr(evaluate(e.l, completed_courses), evaluate(e.r, completed_courses))

\* a faulty Course arm that never reports a course as completed
SimplifyCourseAlwaysOpen(number, completed_courses) == Some(Course(number))

\* the Course arm of simplify
SimplifyCourse(number, completed_courses) ==
    IF number \in completed_courses THEN None ELSE Some(Course(number))

\* the And arm of simplify, on the simplified sides (a faulty variant drops the
\* right residual when both sides have one)
SimplifyAndKeepLeft(left, right) ==
    IF left.tag = "None" THEN right ELSE left

SimplifyAnd(left, right) ==
    IF left.tag = "None" /\ right.tag = "None" THEN None
    ELSE IF right.tag = "None" THEN left
    ELSE IF left.tag = "None" THEN right
    ELSE Some(And(left.tree, right.tree))

\* a faulty Or arm that keeps only the left residual
SimplifyOrKeepLeft(left, right) ==
    IF left.tag = "None" \/ right.tag = "None" THEN None ELSE left

\* the Or arm of simplify, on the simplified sides (a faulty variant keeps the
\* residual of the unsatisfied side)
SimplifyOrAsAnd(left, right) ==
    IF left.tag = "None" /\ right.tag = "None" THEN None
    ELSE IF right.tag = "None" THEN left
    ELSE IF left.tag = "None" THEN right
    ELSE Some(Or(left.tree, right.tree))

SimplifyOr(left, right) ==
    IF left.tag = "None" \/ right.tag = "None" THEN None
    ELSE Some(Or(left.tree, right.tree))

\* Expr::simplify
RECURSIVE simplify(_, _)
simplify(e, completed_courses) ==
    IF e.op = "Course" THEN SimplifyCourse(e.num, completed_courses)
    ELSE IF e.op = "And"
    THEN SimplifyAnd(simplify(e.l, completed_courses), simplify(e.r, completed_courses))
    ELSE SimplifyOr(simplify(e.l, completed_courses), simplify(e.r, completed_courses))

(***************************************************************************)
(* Requisite expressions: inputs and actions                               *)
(***************************************************************************)
MaxLeaves == 3

C15122 == <<"1", "5", "1", "2", "2">>

C21122 == <<"2", "1", "1", "2", "2">>

C15213 == <<"1", "5", "2", "1", "3">>

CourseNumbers == {C15122, C21122, C15213}

\* the trees with exactly n leaves
RECURSIVE TreesWithLeaves(_)
TreesWithLeaves(n) ==
    IF n = 1 THEN {Course(c) : c \in CourseNumbers}
    ELSE UNION { { And(a, b) : a \in TreesWithLeaves(k), b \in TreesWithLeaves(n - k) }
                 \cup { Or(a, b) : a \in TreesWithLeaves(k), b \in TreesWithLeaves(n - k) }
                 : k \in 1..(n - 1) }

Trees == UNION { TreesWithLeaves(n) : n \in 1..MaxLeaves }

\* expr.evaluate(completed)
Evaluate ==
    /\ eval_result = Pending
    /\ eval_result' = [tag |-> "Bool", val |-> evaluate(expr, completed)]
    /\ UNCHANGED << expr, completed, simp_result >>

\* expr.simplify(completed)
Simplify ==
    /\ simp_result = Pending
    /\ simp_result' = simplify(expr, completed)
    /\ UNCHANGED << expr, completed, eval_result >>

(***************************************************************************)
(* Requisite parser                                                        *)
(*                                                                         *)
(* A call returns Ok(tree), Err(fragment), or it panics.  Offsets are      *)
(* counted from 0 as in the source.                                        *)
(***************************************************************************)
Ok(t) == [tag |-> "Ok", tree |-> t]

Err(fragment) == [tag |-> "Err", frag |-> fragment]

Panic == [tag |-> "Panic"]

\* str::chars: one entry per character (a two-byte character is named by
\* its first byte)
Chars(s) == SelectSeq(s, LAMBDA b : ~IsContinuation(b))

\* str::is_char_boundary
IsCharBoundary(s, k) ==
    k = 0 \/ k = Len(s) \/ (0 < k /\ k < Len(s) /\ ~IsContinuation(s[k + 1]))

\* whether &s[from..to] is a valid slice (it panics otherwise)
SliceOk(s, from, to) ==
    from <= to /\ to <= Len(s) /\ IsCharBoundary(s, from) /\ IsCharBoundary(s, to)

\* &s[from..to]
Slice(s, from, to) == SubSeq(s, from + 1, to)

OpOr == <<"o", "r">>

OpAnd == <<"a", "n", "d">>

\* the guard of the ' ' arm of split_top_level (a faulty variant forgets the depth)
SplitGuardAnyDepth(input, op, i, paren_count) ==
    i + Len(op) + 2 <= Len(input)

SplitGuard(input, op, i, paren_count) ==
    paren_count = 0 /\ i + Len(op) + 2 <= Len(input)

\* slice.starts_with(' ') && slice[1..].starts_with(op) && slice.ends_with(' ')
MatchesOp(slice, op) ==
    /\ slice[1] = " "
    /\ SubSeq(slice, 2, Len(op) + 1) = op
    /\ slice[Len(slice)] = " "

\* the while loop of split_top_level from character index i on, and the code
\* after it: Some(parts), None, or a panic
RECURSIVE SplitLoop(_, _, _, _, _, _)
SplitLoop(input, op, i, start, paren_count, result) ==
    LET chars == Chars(input)
    IN  IF i >= Len(chars)
        THEN IF ~SliceOk(input, start, Len(input)) THEN Panic
             ELSE LET last_part == Trim(Slice(input, start, Len(input)))
                      parts == IF last_part # <<>> THEN Append(result, last_part)
                               ELSE result
                  IN  IF Len(parts) >= 2 THEN [tag |-> "Some", parts |-> parts]
                      ELSE None
        ELSE IF chars[i + 1] = "("
        THEN SplitLoop(input, op, i + 1, start, paren_count + 1, result)
        ELSE IF chars[i + 1] = ")"
        THEN SplitLoop(input, op, i + 1, start, paren_count - 1, result)
        ELSE IF chars[i + 1] = " " /\ SplitGuard(input, op, i, paren_count)
        THEN IF ~SliceOk(input, i, i + Len(op) + 2) THEN Panic
             ELSE IF MatchesOp(Slice(input, i, i + Len(op) + 2), op)
             THEN IF ~SliceOk(input, start, i) THEN Panic
                  ELSE LET part == Trim(Slice(input, start, i))
                           parts == IF part # <<>> THEN Append(result, part)
                                    ELSE result
                       IN  SplitLoop(input, op, i + Len(op) + 2,
                                     i + Len(op) + 2, paren_count, parts)
             ELSE SplitLoop(input, op, i + 1, start, paren_count, result)
        ELSE SplitLoop(input, op, i + 1, start, paren_count, result)

split_top_level(input, op) == SplitLoop(input, op, 0, 0, 0, <<>>)

\* the parenthesis count after the characters 0..i
ParenCount(chars, i) ==
    Cardinality({j \in 1..(i + 1) : chars[j] = "("})
        - Cardinality({j \in 1..(i + 1) : chars[j] = ")"})

\* the first loop of from_str: a ')' that brings the count to 0 at a character
\* index below input.len() - 1
FoundClosing(input) ==
    LET chars == Chars(input)
    IN  \E i \in 0..(Len(chars) - 1) :
            /\ chars[i + 1] = ")"
            /\ ParenCount(chars, i) = 0
            /\ i < Len(input) - 1

StartsAndEndsWithParens(input) ==
    Len(input) > 0 /\ input[1] = "(" /\ input[Len(input)] = ")"

\* the operator from_str splits on first, and the one it splits on second
\* (a faulty variant splits on "and" first)
AndFirst == <<OpAnd, OpOr>>

SplitOrder == <<OpOr, OpAnd>>

NodeFor(op, left, right) == IF op = OpOr THEN Or(left, right) ELSE And(left, right)

\* the leaf test of from_str (a faulty variant asks for at least one digit)
IsCourseLeafNonEmpty(input) ==
    input # <<>> /\ \A i \in 1..Len(Chars(input)) : IsAsciiDigit(Chars(input)[i])

IsCourseLeaf(input) ==
    \A i \in 1..Len(Chars(input)) : IsAsciiDigit(Chars(input)[i])

\* impl FromStr for Expr, and its loop over the parts of a split
RECURSIVE from_str(_), FoldParts(_, _, _)
FoldParts(result, parts, op) ==
    IF parts = <<>> THEN Ok(result)
    ELSE LET next == from_str(Head(parts))
         IN  IF next.tag # "Ok" THEN next
             ELSE FoldParts(NodeFor(op, result, next.tree), Tail(parts), op)

from_str(s) ==
    LET input == Trim(s)
        inner == Trim(Slice(input, 1, Len(input) - 1))
        first == split_top_level(input, SplitOrder[1])
        second == split_top_level(input, SplitOrder[2])
        leaf == IF StartsAndEndsWithParens(input) THEN from_str(inner)
                ELSE IF IsCourseLeaf(input) THEN Ok(Course(input))
                ELSE Err(input)
        split2 == IF second.tag = "Panic" THEN Panic
                  ELSE IF second.tag = "Some"
                  THEN LET head == from_str(second.parts[1])
                       IN  IF head.tag # "Ok" THEN head
                           ELSE FoldParts(head.tree, Tail(second.parts), SplitOrder[2])
                  ELSE leaf
        split1 == IF first.tag = "Panic" THEN Panic
                  ELSE IF first.tag = "Some"
                  THEN LET head == from_str(first.parts[1])
                       IN  IF head.tag # "Ok" THEN head
                           ELSE FoldParts(head.tree, Tail(first.parts), SplitOrder[1])
                  ELSE split2
    IN  IF StartsAndEndsWithParens(input) /\ ~FoundClosing(input)
        THEN from_str(inner)
        ELSE split1

(***************************************************************************)
(* Requisite parser: inputs and actions                                    *)
(***************************************************************************)
MaxReqTokens == 5

ReqTokens == { <<"1">>, <<"2">>, <<"(">>, <<")">>, <<" ">>,
               <<" ", "o", "r", " ">>, <<" ", "a", "n", "d", " ">>,
               <<"C3", "A9">> }

\* Operator chains: up to MaxChain course numbers joined by "and"/"or", with
\* at most one parenthesised group <<i, j>> around operands i..j
MaxChain == 3

NoShape == [leaves |-> <<>>, ops |-> <<>>, group |-> <<0, 0>>]

Groups(n) == {<<0, 0>>} \cup {g \in (1..n) \X (1..n) : g[1] <= g[2]}

Shapes ==
    UNION { { [leaves |-> l, ops |-> o, group |-> g] :
                l \in [1..n -> CourseNumbers], o \in [1..(n - 1) -> {OpAnd, OpOr}],
                g \in Groups(n) } : n \in 1..MaxChain }

\* the text of a chain
RECURSIVE RenderFrom(_, _)
RenderFrom(shape, k) ==
    IF k > Len(shape.leaves) THEN <<>>
    ELSE (IF k > 1 THEN <<" ">> \o shape.ops[k - 1] \o <<" ">> ELSE <<>>)
         \o (IF shape.group[1] = k THEN <<"(">> ELSE <<>>)
         \o shape.leaves[k]
         \o (IF shape.group[2] = k THEN <<")">> ELSE <<>>)
         \o RenderFrom(shape, k + 1)

Render(shape) == RenderFrom(shape, 1)

\* Chains whose operators are spelled in lower, upper or mixed case
OperatorSpellings ==
    { OpAnd, <<"A", "N", "D">>, <<"A", "n", "d">>, OpOr, <<"O", "R">> }

SpelledShapes ==
    UNION { { [leaves |-> l, ops |-> o, group |-> <<0, 0>>] :
                l \in [1..n -> CourseNumbers], o \in [1..(n - 1) -> OperatorSpellings] }
            : n \in 1..MaxChain }

\* req_input.parse::<Expr>()
ParseRequisite ==
    /\ req_result = Pending
    /\ req_result' = from_str(req_input)
    /\ UNCHANGED << req_shape, req_input >>

(***************************************************************************)
(* first_pass, and the year of a feed                                      *)
(*                                                                         *)
(* A feed is the sequence of its lines (str::lines).                       *)
(***************************************************************************)
HeaderLines == 11

\* preprocess_lines: drop the header lines, right-trim the rest (a faulty
\* variant drops one line less)
preprocess_lines_one_less(input) ==
    [i \in 1..(IF Len(input) > HeaderLines - 1 THEN Len(input) - (HeaderLines - 1) ELSE 0)
        |-> TrimEnd(input[i + HeaderLines - 1])]

preprocess_lines(input) ==
    [i \in 1..(IF Len(input) > HeaderLines THEN Len(input) - HeaderLines ELSE 0)
        |-> TrimEnd(input[i + HeaderLines])]

\* first_pass
first_pass(input) ==
    LET ls == preprocess_lines(input) IN [i \in 1..Len(ls) |-> parse_line(ls[i])]

\* the diagnostics first_pass prints
RECURSIVE first_pass_output(_)
first_pass_output(ls) ==
    IF ls = <<>> THEN <<>>
    ELSE parse_line_output(Head(ls)) \o first_pass_output(Tail(ls))

\* extract_year: the last whitespace-separated token of the fourth line, as u16
extract_year(input) ==
    IF Len(input) < 4 THEN None
    ELSE LET tokens == SplitWhitespace(input[4])
         IN  IF tokens = <<>> THEN None
             ELSE LET year_str == tokens[Len(tokens)]
                  IN  IF /\ \A i \in 1..Len(year_str) : IsAsciiDigit(year_str[i])
                         /\ DecimalValue(year_str) < 65536
                      THEN [tag |-> "Some", year |-> DecimalValue(year_str)]
                      ELSE None

(***************************************************************************)
(* Structural assembler (second_pass)                                      *)
(*                                                                         *)
(* The accumulator: the open course, the open component and the pending    *)
(* title override, each absent (<<>>) or present (a one-element sequence), *)
(* and the courses emitted so far.                                         *)
(***************************************************************************)
Acc(course, comp, title, out) ==
    [course |-> course, comp |-> comp, title |-> title, out |-> out]

EmptyAcc == Acc(<<>>, <<>>, <<>>, <<>>)

Meeting(days, time_start, time_end, building_room, location, instructors) ==
    [days |-> days, time_start |-> time_start, time_end |-> time_end,
     building_room |-> building_room, location |-> location,
     instructors |-> instructors]

\* ComponentType::from_str: Lecture when the text contains "Lec"
ComponentTypeFromStr(s) ==
    IF \E i \in 1..(Len(s) - 2) : SubSeq(s, i, i + 2) = <<"L", "e", "c">>
    THEN "Lecture" ELSE "Section"

\* the open course with its open component (if any) appended
WithOpenComponent(acc) ==
    IF acc.course = <<>> THEN <<>>
    ELSE << [acc.course[1] EXCEPT !.components = @ \o acc.comp] >>

\* the CourseEntry emitted for a closed course
CourseEntry(course, season, year) ==
    [number |-> course.number, units |-> course.units,
     components |-> course.components, season |-> season, year |-> year]

\* close the open course: append its open component, emit it (a faulty variant
\* emits the course without its open component)
CloseCourseDroppingComponent(acc, season, year) ==
    IF acc.course = <<>> THEN acc
    ELSE Acc(<<>>, <<>>, acc.title,
             Append(acc.out, CourseEntry(acc.course[1], season, year)))

CloseCourse(acc, season, year) ==
    IF acc.course = <<>> THEN acc
    ELSE Acc(<<>>, <<>>, acc.title,
             Append(acc.out, CourseEntry(WithOpenComponent(acc)[1], season, year)))

\* CourseHeader / SecondaryCourseHeader
OnCourseHeader(acc, ln, season, year) ==
    LET closed == CloseCourse(acc, season, year)
        units == IF ln.kind = "SecondaryCourseHeader" THEN <<ln.units>> ELSE <<>>
    IN  Acc(<< [number |-> ln.number, title |-> ln.title, units |-> units,
                components |-> <<>>] >>,
            <<>>, closed.title, closed.out)

\* the component a component row starts, with its one meeting
NewComponent(title, ln) ==
    [title |-> title, component_type |-> ComponentTypeFromStr(ln.section),
     code |-> ln.section,
     meetings |-> << Meeting(ln.days, ln.time_start, ln.time_end,
                             ln.building_room, ln.location, ln.instructors) >>]

\* PrimaryComponentRow
OnPrimaryComponent(acc, ln) ==
    IF acc.course = <<>> THEN acc
    ELSE Acc(WithOpenComponent(acc),
             << NewComponent(acc.course[1].title, ln) >>, acc.title, acc.out)

\* SecondaryComponentRow (a faulty variant keeps the pending override)
OnSecondaryComponentKeepingTitle(acc, ln) ==
    IF acc.course = <<>> THEN acc
    ELSE LET title == IF acc.title # <<>> THEN acc.title[1]
                      ELSE acc.course[1].title
         IN  Acc(WithOpenComponent(acc), << NewComponent(title, ln) >>,
                 acc.title, acc.out)

OnSecondaryComponent(acc, ln) ==
    IF acc.course = <<>> THEN acc
    ELSE LET title == IF acc.title # <<>> THEN acc.title[1]
                      ELSE acc.course[1].title
         IN  Acc(WithOpenComponent(acc), << NewComponent(title, ln) >>,
                 <<>>, acc.out)

\* AdditionalMeetingRow (a faulty variant drops the open course when no
\* component is open)
OnAdditionalMeetingDroppingCourse(acc, ln) ==
    IF acc.comp = <<>> THEN Acc(<<>>, <<>>, acc.title, acc.out)
    ELSE LET comp == acc.comp[1]
             last == comp.meetings[Len(comp.meetings)]
             meeting == Meeting(ln.days, ln.time_start, ln.time_end,
                                ln.building_room, ln.location, last.instructors)
         IN  Acc(acc.course,
                 << [comp EXCEPT !.meetings = Append(@, meeting)] >>,
                 acc.title, acc.out)

OnAdditionalMeeting(acc, ln) ==
    IF acc.comp = <<>> THEN acc
    ELSE LET comp == acc.comp[1]
             last == comp.meetings[Len(comp.meetings)]
             meeting == Meeting(ln.days, ln.time_start, ln.time_end,
                                ln.building_room, ln.location, last.instructors)
         IN  Acc(acc.course,
                 << [comp EXCEPT !.meetings = Append(@, meeting)] >>,
                 acc.title, acc.out)

\* ComponentTitle
OnComponentTitle(acc, ln) == Acc(acc.course, acc.comp, <<ln.title>>, acc.out)

\* one transition of the assembler
AssembleLine(acc, ln, season, year) ==
    IF ln.kind \in {"CourseHeader", "SecondaryCourseHeader"}
    THEN OnCourseHeader(acc, ln, season, year)
    ELSE IF ln.kind = "PrimaryCourseComponent" THEN OnPrimaryComponent(acc, ln)
    ELSE IF ln.kind = "SecondaryCourseComponent" THEN OnSecondaryComponent(acc, ln)
    ELSE IF ln.kind = "AdditionalMeeting" THEN OnAdditionalMeeting(acc, ln)
    ELSE IF ln.kind = "ComponentTitle" THEN OnComponentTitle(acc, ln)
    ELSE acc

\* the end of the input
AssembleEnd(acc, season, year) == CloseCourse(acc, season, year)

(***************************************************************************)
(* Schedule pipeline: inputs and actions                                   *)
(*                                                                         *)
(* One worker of main's parallel map: it reads the year, classifies the    *)
(* lines of its feed and folds them into courses, one line per step.       *)
(***************************************************************************)
MaxFeedLines == 4

SampleCourseHeader == C15122 \o <<Tab, "x">>

SampleSecondaryCourseHeader == C15213 \o <<Tab, "z", Tab, "9">>

SamplePrimaryComponent ==
    JoinTabs(<< <<"9">>, <<"L", "e", "c">>, <<"M">>, <<"x">>, <<"x">>, <<"x">>,
                <<"x">>, <<"I">> >>)

SampleSecondaryComponent ==
    JoinTabs(<< <<"A">>, <<"T">>, <<"x">>, <<"x">>, <<"x">>, <<"x">>, <<"J">> >>)

SampleAdditionalMeeting ==
    <<Tab, Tab>> \o JoinTabs(<< <<"F">>, <<"x">>, <<"x">>, <<"x">>, <<"x">> >>)

SampleComponentTitle == <<Tab, Tab, "t">>

SampleUnknown == <<"x">>

SampleDepartment == <<Tab, "x">>

\* the lines the assembler acts on
StructuralLines ==
    { SampleCourseHeader, SampleSecondaryCourseHeader, SamplePrimaryComponent,
      SampleSecondaryComponent, SampleAdditionalMeeting, SampleComponentTitle }

\* the lines the assembler passes over
PassedLines == { SampleDepartment, SampleUnknown, <<>> }

SampleFeedLines == StructuralLines \cup PassedLines

MaxMixedLines == 3

\* the header of a feed: eleven lines, the fourth ending with the year
FeedHeader ==
    [i \in 1..HeaderLines |->
        IF i = 4 THEN <<"x", " ", "2", "0", "2", "5">> ELSE <<"x">>]

RECURSIVE LineSeqs(_, _)
LineSeqs(choices, n) ==
    IF n = 0 THEN {<<>>}
    ELSE LET shorter == LineSeqs(choices, n - 1)
         IN  shorter \cup {Append(ls, l) : ls \in shorter, l \in choices}

\* the feeds: a full header followed by data lines, or a header cut short
Feeds ==
    { [season |-> "F", text |-> FeedHeader \o data] :
        data \in LineSeqs(StructuralLines, MaxFeedLines)
                    \cup LineSeqs(SampleFeedLines, MaxMixedLines) }
    \cup { [season |-> "F", text |-> SubSeq(FeedHeader, 1, n)] : n \in 0..HeaderLines }

(***************************************************************************)
(* The parsing workers of main                                             *)
(*                                                                         *)
(* into_par_iter hands each downloaded (season, text) to a worker thread.  *)
(* A worker owns its text, its classified lines and its accumulator; the   *)
(* console, which parse_line prints to, belongs to the process.            *)
(***************************************************************************)
MaxWorkerLines == 2

\* two of the seasons of Season::all(), one worker each
Seasons == <<"F", "S">>

WorkerIds == 1..Len(Seasons)

WorkerLines == {SampleCourseHeader, SamplePrimaryComponent, SampleUnknown}

WorkerFeeds ==
    {FeedHeader \o data : data \in LineSeqs(WorkerLines, MaxWorkerLines)}
    \cup {SubSeq(FeedHeader, 1, 3)}

Worker(season, text) ==
    [season |-> season, text |-> text, pc |-> "start", pos |-> 0,
     lines |-> <<>>, acc |-> EmptyAcc]

\* second_pass as one call: the transitions over the lines, then the end
RECURSIVE FoldLines(_, _, _, _)
FoldLines(acc, lines, season, year) ==
    IF lines = <<>> THEN AssembleEnd(acc, season, year)
    ELSE FoldLines(AssembleLine(acc, Head(lines), season, year), Tail(lines), season, year)

\* the closure of main run alone on one feed
RunAlone(season, text) ==
    IF extract_year(text).tag = "None" THEN [tag |-> "Panicked"]
    ELSE [tag |-> "Result",
          out |-> FoldLines(EmptyAcc, first_pass(text), season,
                            extract_year(text).year).out]

\* a worker takes its feed: extract_year, or the panic of unwrap_or_else
WorkerStart(w) ==
    /\ workers[w].pc = "start"
    /\ workers' = [workers EXCEPT ![w].pc =
                      IF extract_year(workers[w].text).tag = "None"
                      THEN "panicked" ELSE "classify"]
    /\ UNCHANGED console

\* first_pass: parse_line of the next line, which prints when the line is
\* Unknown
WorkerClassify(w) ==
    /\ workers[w].pc = "classify"
    /\ LET ls == preprocess_lines(workers[w].text)
       IN  IF workers[w].pos < Len(ls)
           THEN LET l == ls[workers[w].pos + 1]
                IN  /\ workers' = [workers EXCEPT ![w].pos = @ + 1,
                                                  ![w].lines = Append(@, parse_line(l))]
                    /\ console' = console \o
                          [i \in 1..Len(parse_line_output(l)) |->
                              [by |-> w, text |-> parse_line_output(l)[i]]]
           ELSE /\ workers' = [workers EXCEPT ![w].pc = "fold", ![w].pos = 0]
                /\ UNCHANGED console

\* second_pass: the transition for the next classified line, or the end
WorkerAssemble(w) ==
    /\ workers[w].pc = "fold"
    /\ LET me == workers[w]
           year == extract_year(me.text).year
       IN  IF me.pos < Len(me.lines)
           THEN workers' = [workers EXCEPT
                   ![w].acc = AssembleLine(me.acc, me.lines[me.pos + 1], me.season, year),
                   ![w].pos = @ + 1]
           ELSE workers' = [workers EXCEPT
                   ![w].acc = AssembleEnd(me.acc, me.season, year),
                   ![w].pc = "done"]
    /\ UNCHANGED console

CurrentAcc == Acc(sp_course, sp_comp, sp_title, sp_out)

SetAcc(acc) == /\ sp_course' = acc.course
               /\ sp_comp' = acc.comp
               /\ sp_title' = acc.title
               /\ sp_out' = acc.out

FeedYear == extract_year(feed.text)

\* extract_year(&text) and first_pass(&text); the worker panics without a year
ReadFeed ==
    /\ sp_pc = "start"
    /\ IF FeedYear.tag = "None"
       THEN /\ sp_pc' = "panicked"
            /\ UNCHANGED << sp_lines, diag >>
       ELSE /\ sp_pc' = "fold"
            /\ sp_lines' = first_pass(feed.text)
            /\ diag' = diag \o first_pass_output(preprocess_lines(feed.text))
    /\ UNCHANGED << feed, sp_pos, sp_course, sp_comp, sp_title, sp_out >>

\* second_pass: the transition for the next classified line
AssembleStep ==
    /\ sp_pc = "fold"
    /\ sp_pos < Len(sp_lines)
    /\ SetAcc(AssembleLine(CurrentAcc, sp_lines[sp_pos + 1], feed.season, FeedYear.year))
    /\ sp_pos' = sp_pos + 1
    /\ UNCHANGED << feed, sp_lines, sp_pc, diag >>

\* second_pass: the end of the input
AssembleFinish ==
    /\ sp_pc = "fold"
    /\ sp_pos = Len(sp_lines)
    /\ SetAcc(AssembleEnd(CurrentAcc, feed.season, FeedYear.year))
    /\ sp_pc' = "done"
    /\ UNCHANGED << feed, sp_lines, sp_pos, diag >>

(***************************************************************************)
(* Specifications                                                          *)
(*                                                                         *)
(* Spec is the schedule pipeline.  The pure components each have a         *)
(* specification of their own, which draws the inputs in its initial       *)
(* state and applies the component to them.                                *)
(***************************************************************************)
Init ==
    /\ unit_input = <<>>
    /\ unit_result = Pending
    /\ unit_type_result = Pending
    /\ unit_text = Pending
    /\ unit_reparsed = Pending
    /\ cmp_a = VAR
    /\ cmp_b = VAR
    /\ cmp_result = Pending
    /\ line = <<>>
    /\ parsed = Pending
    /\ diag = <<>>
    /\ feed \in Feeds
    /\ sp_lines = <<>>
    /\ sp_pos = 0
    /\ sp_course = <<>>
    /\ sp_comp = <<>>
    /\ sp_title = <<>>
    /\ sp_out = <<>>
    /\ sp_pc = "start"
    /\ req_shape = NoShape
    /\ req_input = <<>>
    /\ req_result = Pending
    /\ expr = Course(C15122)
    /\ completed = {}
    /\ eval_result = Pending
    /\ simp_result = Pending
    /\ day_input = NoText
    /\ day_set = Pending
    /\ day_text = Pending
    /\ day_reparsed = Pending
    /\ call = Pending
    /\ workers = <<>>
    /\ console = <<>>
    /\ db = <<>>
    /\ batches = <<>>
    /\ next_uuid = 0
    /\ save_result = Pending

Next ==
    \/ ReadFeed /\ UNCHANGED << dayVars, unitVars, line, parsed, reqVars, exprVars, callVars, workerVars, dbVars >>
    \/ AssembleStep /\ UNCHANGED << dayVars, unitVars, line, parsed, reqVars, exprVars, callVars, workerVars, dbVars >>
    \/ AssembleFinish /\ UNCHANGED << dayVars, unitVars, line, parsed, reqVars, exprVars, callVars, workerVars, dbVars >>

Spec == Init /\ [][Next]_vars

UnitInit ==
    /\ unit_input \in TokenStrings(UnitTokens, MaxUnitTokens)
    /\ unit_result = Pending
    /\ unit_type_result = Pending
    /\ unit_text = Pending
    /\ unit_reparsed = Pending
    /\ cmp_a = VAR
    /\ cmp_b = VAR
    /\ cmp_result = Pending
    /\ line = <<>>
    /\ parsed = Pending
    /\ diag = <<>>
    /\ feed = [season |-> "F", text |-> <<>>]
    /\ sp_lines = <<>>
    /\ sp_pos = 0
    /\ sp_course = <<>>
    /\ sp_comp = <<>>
    /\ sp_title = <<>>
    /\ sp_out = <<>>
    /\ sp_pc = "idle"
    /\ req_shape = NoShape
    /\ req_input = <<>>
    /\ req_result = Pending
    /\ expr = Course(C15122)
    /\ completed = {}
    /\ eval_result = Pending
    /\ simp_result = Pending
    /\ day_input = NoText
    /\ day_set = Pending
    /\ day_text = Pending
    /\ day_reparsed = Pending
    /\ call = Pending
    /\ workers = <<>>
    /\ console = <<>>
    /\ db = <<>>
    /\ batches = <<>>
    /\ next_uuid = 0
    /\ save_result = Pending

UnitNext ==
    \/ ParseUnits /\ UNCHANGED << dayVars, lineVars, passVars, reqVars, exprVars, callVars, workerVars, dbVars >>
    \/ ParseUnitType /\ UNCHANGED << dayVars, lineVars, passVars, reqVars, exprVars, callVars, workerVars, dbVars >>

SpecUnits == UnitInit /\ [][UnitNext]_vars

LineInit ==
    /\ unit_input = <<>>
    /\ unit_result = Pending
    /\ unit_type_result = Pending
    /\ unit_text = Pending
    /\ unit_reparsed = Pending
    /\ cmp_a = VAR
    /\ cmp_b = VAR
    /\ cmp_result = Pending
    /\ line \in SampleLines
    /\ parsed = Pending
    /\ diag = <<>>
    /\ feed = [season |-> "F", text |-> <<>>]
    /\ sp_lines = <<>>
    /\ sp_pos = 0
    /\ sp_course = <<>>
    /\ sp_comp = <<>>
    /\ sp_title = <<>>
    /\ sp_out = <<>>
    /\ sp_pc = "idle"
    /\ req_shape = NoShape
    /\ req_input = <<>>
    /\ req_result = Pending
    /\ expr = Course(C15122)
    /\ completed = {}
    /\ eval_result = Pending
    /\ simp_result = Pending
    /\ day_input = NoText
    /\ day_set = Pending
    /\ day_text = Pending
    /\ day_reparsed = Pending
    /\ call = Pending
    /\ workers = <<>>
    /\ console = <<>>
    /\ db = <<>>
    /\ batches = <<>>
    /\ next_uuid = 0
    /\ save_result = Pending

LineNext == ClassifyLine /\ UNCHANGED << dayVars, unitVars, passVars, reqVars, exprVars, callVars, workerVars, dbVars >>

SpecClassify == LineInit /\ [][LineNext]_vars

ReqInit ==
    /\ unit_input = <<>>
    /\ unit_result = Pending
    /\ unit_type_result = Pending
    /\ unit_text = Pending
    /\ unit_reparsed = Pending
    /\ cmp_a = VAR
    /\ cmp_b = VAR
    /\ cmp_result = Pending
    /\ line = <<>>
    /\ parsed = Pending
    /\ diag = <<>>
    /\ feed = [season |-> "F", text |-> <<>>]
    /\ sp_lines = <<>>
    /\ sp_pos = 0
    /\ sp_course = <<>>
    /\ sp_comp = <<>>
    /\ sp_title = <<>>
    /\ sp_out = <<>>
    /\ sp_pc = "idle"
    /\ req_shape = NoShape
    /\ req_input \in TokenStrings(ReqTokens, MaxReqTokens)
    /\ req_result = Pending
    /\ expr = Course(C15122)
    /\ completed = {}
    /\ eval_result = Pending
    /\ simp_result = Pending
    /\ day_input = NoText
    /\ day_set = Pending
    /\ day_text = Pending
    /\ day_reparsed = Pending
    /\ call = Pending
    /\ workers = <<>>
    /\ console = <<>>
    /\ db = <<>>
    /\ batches = <<>>
    /\ next_uuid = 0
    /\ save_result = Pending

ReqNext == ParseRequisite /\ UNCHANGED << dayVars, unitVars, lineVars, passVars, exprVars, callVars, workerVars, dbVars >>

SpecRequisite == ReqInit /\ [][ReqNext]_vars

ExprInit ==
    /\ unit_input = <<>>
    /\ unit_result = Pending
    /\ unit_type_result = Pending
    /\ unit_text = Pending
    /\ unit_reparsed = Pending
    /\ cmp_a = VAR
    /\ cmp_b = VAR
    /\ cmp_result = Pending
    /\ line = <<>>
    /\ parsed = Pending
    /\ diag = <<>>
    /\ feed = [season |-> "F", text |-> <<>>]
    /\ sp_lines = <<>>
    /\ sp_pos = 0
    /\ sp_course = <<>>
    /\ sp_comp = <<>>
    /\ sp_title = <<>>
    /\ sp_out = <<>>
    /\ sp_pc = "idle"
    /\ req_shape = NoShape
    /\ req_input = <<>>
    /\ req_result = Pending
    /\ expr \in Trees
    /\ completed \in SUBSET CourseNumbers
    /\ eval_result = Pending
    /\ simp_result = Pending
    /\ day_input = NoText
    /\ day_set = Pending
    /\ day_text = Pending
    /\ day_reparsed = Pending
    /\ call = Pending
    /\ workers = <<>>
    /\ console = <<>>
    /\ db = <<>>
    /\ batches = <<>>
    /\ next_uuid = 0
    /\ save_result = Pending

ExprNext ==
    \/ Evaluate /\ UNCHANGED << dayVars, unitVars, lineVars, passVars, reqVars, callVars, workerVars, dbVars >>
    \/ Simplify /\ UNCHANGED << dayVars, unitVars, lineVars, passVars, reqVars, callVars, workerVars, dbVars >>

SpecExpr == ExprInit /\ [][ExprNext]_vars

ChainInit ==
    /\ unit_input = <<>>
    /\ unit_result = Pending
    /\ unit_type_result = Pending
    /\ unit_text = Pending
    /\ unit_reparsed = Pending
    /\ cmp_a = VAR
    /\ cmp_b = VAR
    /\ cmp_result = Pending
    /\ line = <<>>
    /\ parsed = Pending
    /\ diag = <<>>
    /\ feed = [season |-> "F", text |-> <<>>]
    /\ sp_lines = <<>>
    /\ sp_pos = 0
    /\ sp_course = <<>>
    /\ sp_comp = <<>>
    /\ sp_title = <<>>
    /\ sp_out = <<>>
    /\ sp_pc = "idle"
    /\ req_shape \in Shapes
    /\ req_input = Render(req_shape)
    /\ req_result = Pending
    /\ expr = Course(C15122)
    /\ completed = {}
    /\ eval_result = Pending
    /\ simp_result = Pending
    /\ day_input = NoText
    /\ day_set = Pending
    /\ day_text = Pending
    /\ day_reparsed = Pending
    /\ call = Pending
    /\ workers = <<>>
    /\ console = <<>>
    /\ db = <<>>
    /\ batches = <<>>
    /\ next_uuid = 0
    /\ save_result = Pending

SpecChain == ChainInit /\ [][ReqNext]_vars

OrderInit ==
    /\ unit_input = <<>>
    /\ unit_result = Pending
    /\ unit_type_result = Pending
    /\ unit_text = Pending
    /\ unit_reparsed = Pending
    /\ cmp_a \in UnitsValues
    /\ cmp_b \in UnitsValues
    /\ cmp_result = Pending
    /\ line = <<>>
    /\ parsed = Pending
    /\ diag = <<>>
    /\ feed = [season |-> "F", text |-> <<>>]
    /\ sp_lines = <<>>
    /\ sp_pos = 0
    /\ sp_course = <<>>
    /\ sp_comp = <<>>
    /\ sp_title = <<>>
    /\ sp_out = <<>>
    /\ sp_pc = "idle"
    /\ req_shape = NoShape
    /\ req_input = <<>>
    /\ req_result = Pending
    /\ expr = Course(C15122)
    /\ completed = {}
    /\ eval_result = Pending
    /\ simp_result = Pending
    /\ day_input = NoText
    /\ day_set = Pending
    /\ day_text = Pending
    /\ day_reparsed = Pending
    /\ call = Pending
    /\ workers = <<>>
    /\ console = <<>>
    /\ db = <<>>
    /\ batches = <<>>
    /\ next_uuid = 0
    /\ save_result = Pending

OrderNext == CompareUnits /\ UNCHANGED << dayVars, lineVars, passVars, reqVars, exprVars, callVars, workerVars, dbVars >>

SpecOrder == OrderInit /\ [][OrderNext]_vars

RoundTripInit ==
    /\ unit_input \in UnitTexts
    /\ unit_result = Pending
    /\ unit_type_result = Pending
    /\ unit_text = Pending
    /\ unit_reparsed = Pending
    /\ cmp_a = VAR
    /\ cmp_b = VAR
    /\ cmp_result = Pending
    /\ line = <<>>
    /\ parsed = Pending
    /\ diag = <<>>
    /\ feed = [season |-> "F", text |-> <<>>]
    /\ sp_lines = <<>>
    /\ sp_pos = 0
    /\ sp_course = <<>>
    /\ sp_comp = <<>>
    /\ sp_title = <<>>
    /\ sp_out = <<>>
    /\ sp_pc = "idle"
    /\ req_shape = NoShape
    /\ req_input = <<>>
    /\ req_result = Pending
    /\ expr = Course(C15122)
    /\ completed = {}
    /\ eval_result = Pending
    /\ simp_result = Pending
    /\ day_input = NoText
    /\ day_set = Pending
    /\ day_text = Pending
    /\ day_reparsed = Pending
    /\ call = Pending
    /\ workers = <<>>
    /\ console = <<>>
    /\ db = <<>>
    /\ batches = <<>>
    /\ next_uuid = 0
    /\ save_result = Pending

RoundTripNext ==
    \/ ParseUnits /\ UNCHANGED << dayVars, lineVars, passVars, reqVars, exprVars, callVars, workerVars, dbVars >>
    \/ DisplayUnits /\ UNCHANGED << dayVars, lineVars, passVars, reqVars, exprVars, callVars, workerVars, dbVars >>
    \/ ReparseUnits /\ UNCHANGED << dayVars, lineVars, passVars, reqVars, exprVars, callVars, workerVars, dbVars >>

SpecRoundTrip == RoundTripInit /\ [][RoundTripNext]_vars

SpelledInit ==
    /\ unit_input = <<>>
    /\ unit_result = Pending
    /\ unit_type_result = Pending
    /\ unit_text = Pending
    /\ unit_reparsed = Pending
    /\ cmp_a = VAR
    /\ cmp_b = VAR
    /\ cmp_result = Pending
    /\ line = <<>>
    /\ parsed = Pending
    /\ diag = <<>>
    /\ feed = [season |-> "F", text |-> <<>>]
    /\ sp_lines = <<>>
    /\ sp_pos = 0
    /\ sp_course = <<>>
    /\ sp_comp = <<>>
    /\ sp_title = <<>>
    /\ sp_out = <<>>
    /\ sp_pc = "idle"
    /\ req_shape \in SpelledShapes
    /\ req_input = Render(req_shape)
    /\ req_result = Pending
    /\ expr = Course(C15122)
    /\ completed = {}
    /\ eval_result = Pending
    /\ simp_result = Pending
    /\ day_input = NoText
    /\ day_set = Pending
    /\ day_text = Pending
    /\ day_reparsed = Pending
    /\ call = Pending
    /\ workers = <<>>
    /\ console = <<>>
    /\ db = <<>>
    /\ batches = <<>>
    /\ next_uuid = 0
    /\ save_result = Pending

SpecSpelled == SpelledInit /\ [][ReqNext]_vars

DayInit ==
    /\ unit_input = <<>>
    /\ unit_result = Pending
    /\ unit_type_result = Pending
    /\ unit_text = Pending
    /\ unit_reparsed = Pending
    /\ cmp_a = VAR
    /\ cmp_b = VAR
    /\ cmp_result = Pending
    /\ line = <<>>
    /\ parsed = Pending
    /\ diag = <<>>
    /\ feed = [season |-> "F", text |-> <<>>]
    /\ sp_lines = <<>>
    /\ sp_pos = 0
    /\ sp_course = <<>>
    /\ sp_comp = <<>>
    /\ sp_title = <<>>
    /\ sp_out = <<>>
    /\ sp_pc = "idle"
    /\ req_shape = NoShape
    /\ req_input = <<>>
    /\ req_result = Pending
    /\ expr = Course(C15122)
    /\ completed = {}
    /\ eval_result = Pending
    /\ simp_result = Pending
    /\ day_input \in {NoText} \cup {Text(s) : s \in DayTexts(MaxDayLetters)}
    /\ day_set = Pending
    /\ day_text = Pending
    /\ day_reparsed = Pending
    /\ call = Pending
    /\ workers = <<>>
    /\ console = <<>>
    /\ db = <<>>
    /\ batches = <<>>
    /\ next_uuid = 0
    /\ save_result = Pending

DayNext ==
    \/ NewDaySet /\ UNCHANGED << unitVars, lineVars, passVars, reqVars, exprVars, callVars, workerVars, dbVars >>
    \/ AddDay /\ UNCHANGED << unitVars, lineVars, passVars, reqVars, exprVars, callVars, workerVars, dbVars >>
    \/ ParseDays /\ UNCHANGED << unitVars, lineVars, passVars, reqVars, exprVars, callVars, workerVars, dbVars >>
    \/ DisplayDays /\ UNCHANGED << unitVars, lineVars, passVars, reqVars, exprVars, callVars, workerVars, dbVars >>
    \/ ReparseDays /\ UNCHANGED << unitVars, lineVars, passVars, reqVars, exprVars, callVars, workerVars, dbVars >>

SpecDays == DayInit /\ [][DayNext]_vars

DayOpsInit ==
    /\ unit_input = <<>>
    /\ unit_result = Pending
    /\ unit_type_result = Pending
    /\ unit_text = Pending
    /\ unit_reparsed = Pending
    /\ cmp_a = VAR
    /\ cmp_b = VAR
    /\ cmp_result = Pending
    /\ line = <<>>
    /\ parsed = Pending
    /\ diag = <<>>
    /\ feed = [season |-> "F", text |-> <<>>]
    /\ sp_lines = <<>>
    /\ sp_pos = 0
    /\ sp_course = <<>>
    /\ sp_comp = <<>>
    /\ sp_title = <<>>
    /\ sp_out = <<>>
    /\ sp_pc = "idle"
    /\ req_shape = NoShape
    /\ req_input = <<>>
    /\ req_result = Pending
    /\ expr = Course(C15122)
    /\ completed = {}
    /\ eval_result = Pending
    /\ simp_result = Pending
    /\ day_input = NoText
    /\ day_set = Pending
    /\ day_text = Pending
    /\ day_reparsed = Pending
    /\ call = Pending
    /\ workers = <<>>
    /\ console = <<>>
    /\ db = <<>>
    /\ batches = <<>>
    /\ next_uuid = 0
    /\ save_result = Pending

DayOpsNext ==
    \/ StartDaySet /\ UNCHANGED << unitVars, lineVars, passVars, reqVars, exprVars, workerVars, dbVars >>
    \/ MutateDaySet /\ UNCHANGED << unitVars, lineVars, passVars, reqVars, exprVars, workerVars, dbVars >>
    \/ CombineDaySet /\ UNCHANGED << unitVars, lineVars, passVars, reqVars, exprVars, workerVars, dbVars >>
    \/ ComplementDaySet /\ UNCHANGED << unitVars, lineVars, passVars, reqVars, exprVars, workerVars, dbVars >>
    \/ ContainsDaySet /\ UNCHANGED << unitVars, lineVars, passVars, reqVars, exprVars, workerVars, dbVars >>

SpecDayOps == DayOpsInit /\ [][DayOpsNext]_vars

DaysFieldInit ==
    /\ unit_input = <<>>
    /\ unit_result = Pending
    /\ unit_type_result = Pending
    /\ unit_text = Pending
    /\ unit_reparsed = Pending
    /\ cmp_a = VAR
    /\ cmp_b = VAR
    /\ cmp_result = Pending
    /\ line = <<>>
    /\ parsed = Pending
    /\ diag = <<>>
    /\ feed = [season |-> "F", text |-> <<>>]
    /\ sp_lines = <<>>
    /\ sp_pos = 0
    /\ sp_course = <<>>
    /\ sp_comp = <<>>
    /\ sp_title = <<>>
    /\ sp_out = <<>>
    /\ sp_pc = "idle"
    /\ req_shape = NoShape
    /\ req_input = <<>>
    /\ req_result = Pending
    /\ expr = Course(C15122)
    /\ completed = {}
    /\ eval_result = Pending
    /\ simp_result = Pending
    /\ day_input \in {Text(s) : s \in DaysTexts(MaxDaysLetters)}
    /\ day_set = Pending
    /\ day_text = Pending
    /\ day_reparsed = Pending
    /\ call = Pending
    /\ workers = <<>>
    /\ console = <<>>
    /\ db = <<>>
    /\ batches = <<>>
    /\ next_uuid = 0
    /\ save_result = Pending

DaysFieldNext ==
    ParseDaysField /\ UNCHANGED << unitVars, lineVars, passVars, reqVars, exprVars, workerVars, dbVars >>

SpecDaysField == DaysFieldInit /\ [][DaysFieldNext]_vars

TimeInit ==
    /\ unit_input = <<>>
    /\ unit_result = Pending
    /\ unit_type_result = Pending
    /\ unit_text = Pending
    /\ unit_reparsed = Pending
    /\ cmp_a = VAR
    /\ cmp_b = VAR
    /\ cmp_result = Pending
    /\ line = <<>>
    /\ parsed = Pending
    /\ diag = <<>>
    /\ feed = [season |-> "F", text |-> <<>>]
    /\ sp_lines = <<>>
    /\ sp_pos = 0
    /\ sp_course = <<>>
    /\ sp_comp = <<>>
    /\ sp_title = <<>>
    /\ sp_out = <<>>
    /\ sp_pc = "idle"
    /\ req_shape = NoShape
    /\ req_input = <<>>
    /\ req_result = Pending
    /\ expr = Course(C15122)
    /\ completed = {}
    /\ eval_result = Pending
    /\ simp_result = Pending
    /\ day_input = NoText
    /\ day_set = Pending
    /\ day_text = Pending
    /\ day_reparsed = Pending
    /\ call = Pending
    /\ workers = <<>>
    /\ console = <<>>
    /\ db = <<>>
    /\ batches = <<>>
    /\ next_uuid = 0
    /\ save_result = Pending

TimeNext ==
    \/ NewTimeRange /\ UNCHANGED << unitVars, lineVars, passVars, reqVars, exprVars, workerVars, dbVars >>
    \/ TimeRangeOfStrings /\ UNCHANGED << unitVars, lineVars, passVars, reqVars, exprVars, workerVars, dbVars >>

SpecTime == TimeInit /\ [][TimeNext]_vars

RoomInit ==
    /\ unit_input = <<>>
    /\ unit_result = Pending
    /\ unit_type_result = Pending
    /\ unit_text = Pending
    /\ unit_reparsed = Pending
    /\ cmp_a = VAR
    /\ cmp_b = VAR
    /\ cmp_result = Pending
    /\ line = <<>>
    /\ parsed = Pending
    /\ diag = <<>>
    /\ feed = [season |-> "F", text |-> <<>>]
    /\ sp_lines = <<>>
    /\ sp_pos = 0
    /\ sp_course = <<>>
    /\ sp_comp = <<>>
    /\ sp_title = <<>>
    /\ sp_out = <<>>
    /\ sp_pc = "idle"
    /\ req_shape = NoShape
    /\ req_input = <<>>
    /\ req_result = Pending
    /\ expr = Course(C15122)
    /\ completed = {}
    /\ eval_result = Pending
    /\ simp_result = Pending
    /\ day_input = NoText
    /\ day_set = Pending
    /\ day_text = Pending
    /\ day_reparsed = Pending
    /\ call = Pending
    /\ workers = <<>>
    /\ console = <<>>
    /\ db = <<>>
    /\ batches = <<>>
    /\ next_uuid = 0
    /\ save_result = Pending

RoomNext ==
    ParseBuildingRoom /\ UNCHANGED << unitVars, lineVars, passVars, reqVars, exprVars, workerVars, dbVars >>

SpecRoom == RoomInit /\ [][RoomNext]_vars

WorkersInit ==
    /\ unit_input = <<>>
    /\ unit_result = Pending
    /\ unit_type_result = Pending
    /\ unit_text = Pending
    /\ unit_reparsed = Pending
    /\ cmp_a = VAR
    /\ cmp_b = VAR
    /\ cmp_result = Pending
    /\ line = <<>>
    /\ parsed = Pending
    /\ diag = <<>>
    /\ feed = [season |-> "F", text |-> <<>>]
    /\ sp_lines = <<>>
    /\ sp_pos = 0
    /\ sp_course = <<>>
    /\ sp_comp = <<>>
    /\ sp_title = <<>>
    /\ sp_out = <<>>
    /\ sp_pc = "idle"
    /\ req_shape = NoShape
    /\ req_input = <<>>
    /\ req_result = Pending
    /\ expr = Course(C15122)
    /\ completed = {}
    /\ eval_result = Pending
    /\ simp_result = Pending
    /\ day_input = NoText
    /\ day_set = Pending
    /\ day_text = Pending
    /\ day_reparsed = Pending
    /\ call = Pending
    /\ workers \in {[w \in WorkerIds |-> Worker(Seasons[w], texts[w])] :
                      texts \in [WorkerIds -> WorkerFeeds]}
    /\ console = <<>>
    /\ db = <<>>
    /\ batches = <<>>
    /\ next_uuid = 0
    /\ save_result = Pending

WorkersNext ==
    \/ \E w \in WorkerIds : WorkerStart(w) /\ UNCHANGED << unitVars, lineVars, passVars, reqVars, exprVars, dayVars, callVars, dbVars >>
    \/ \E w \in WorkerIds : WorkerClassify(w) /\ UNCHANGED << unitVars, lineVars, passVars, reqVars, exprVars, dayVars, callVars, dbVars >>
    \/ \E w \in WorkerIds : WorkerAssemble(w) /\ UNCHANGED << unitVars, lineVars, passVars, reqVars, exprVars, dayVars, callVars, dbVars >>

SpecWorkers == WorkersInit /\ [][WorkersNext]_vars

SaveInit ==
    /\ unit_input = <<>>
    /\ unit_result = Pending
    /\ unit_type_result = Pending
    /\ unit_text = Pending
    /\ unit_reparsed = Pending
    /\ cmp_a = VAR
    /\ cmp_b = VAR
    /\ cmp_result = Pending
    /\ line = <<>>
    /\ parsed = Pending
    /\ diag = <<>>
    /\ feed = [season |-> "F", text |-> <<>>]
    /\ sp_lines = <<>>
    /\ sp_pos = 0
    /\ sp_course = <<>>
    /\ sp_comp = <<>>
    /\ sp_title = <<>>
    /\ sp_out = <<>>
    /\ sp_pc = "idle"
    /\ req_shape = NoShape
    /\ req_input = <<>>
    /\ req_result = Pending
    /\ expr = Course(C15122)
    /\ completed = {}
    /\ eval_result = Pending
    /\ simp_result = Pending
    /\ day_input = NoText
    /\ day_set = Pending
    /\ day_text = Pending
    /\ day_reparsed = Pending
    /\ call = Pending
    /\ workers = <<>>
    /\ console = <<>>
    /\ db \in {NoRows, [NoRows EXCEPT !.instructors = {StoredInstructor}]}
    /\ batches \in {[b \in 1..MaxBatches |-> Batch(objs[b])] :
                      objs \in [1..MaxBatches -> CourseBatches(MaxBatchCourses) \ {<<>>}]}
    /\ next_uuid = 0
    /\ save_result = Pending

SaveNext ==
    \/ \E b \in DOMAIN batches : BeginBatch(b) /\ UNCHANGED << unitVars, lineVars, passVars, reqVars, exprVars, dayVars, callVars, workerVars >>
    \/ \E b \in DOMAIN batches : LookupInstructors(b) /\ UNCHANGED << unitVars, lineVars, passVars, reqVars, exprVars, dayVars, callVars, workerVars >>
    \/ \E b \in DOMAIN batches : InsertInstructor(b) /\ UNCHANGED << unitVars, lineVars, passVars, reqVars, exprVars, dayVars, callVars, workerVars >>
    \/ \E b \in DOMAIN batches : InsertCourses(b) /\ UNCHANGED << unitVars, lineVars, passVars, reqVars, exprVars, dayVars, callVars, workerVars >>
    \/ \E b \in DOMAIN batches : InsertComponents(b) /\ UNCHANGED << unitVars, lineVars, passVars, reqVars, exprVars, dayVars, callVars, workerVars >>
    \/ \E b \in DOMAIN batches : CommitBatch(b) /\ UNCHANGED << unitVars, lineVars, passVars, reqVars, exprVars, dayVars, callVars, workerVars >>
    \/ SaveCoursesOk /\ UNCHANGED << unitVars, lineVars, passVars, reqVars, exprVars, dayVars, callVars, workerVars >>
    \/ SaveCoursesErr /\ UNCHANGED << unitVars, lineVars, passVars, reqVars, exprVars, dayVars, callVars, workerVars >>

SpecSave == SaveInit /\ [][SaveNext]_vars

(***************************************************************************)
(* Properties                                                              *)
(***************************************************************************)

\* the fields of the trimmed line, counted by its tabs
FieldCount(l) == 1 + Cardinality({i \in 1..Len(Trim(l)) : Trim(l)[i] = Tab})

FieldAt(l, k) == Split(Trim(l), Tab)[k]

\* the tabs the raw line starts with
LeadingTabCount(l) ==
    Cardinality({i \in 1..Len(l) : \A j \in 1..i : l[j] = Tab})

\* the kind the ordered rules (1)..(8) give a non-blank line
RuleKind(l) ==
    LET n == FieldCount(l)
        t == LeadingTabCount(l)
    IN  IF n = 1 /\ t = 1 THEN "Department"
        ELSE IF n = 2 /\ is_course_number(FieldAt(l, 1)) THEN "CourseHeader"
        ELSE IF n >= 3 /\ is_course_number(FieldAt(l, 1)) /\ UnitsOk(FieldAt(l, 3))
             THEN "SecondaryCourseHeader"
        ELSE IF n >= 8 /\ UnitsOk(FieldAt(l, 1)) THEN "PrimaryCourseComponent"
        ELSE IF n >= 7 /\ FieldAt(l, 1) # <<>> /\ FieldAt(l, 1)[1] \in Uppercase
             THEN "SecondaryCourseComponent"
        ELSE IF n >= 5 THEN "AdditionalMeeting"
        ELSE IF n = 1 /\ t = 2 THEN "ComponentTitle"
        ELSE "Unknown"

IsBlank(l) == \A i \in 1..Len(l) : l[i] \in {" ", Tab}

\* C1: parse_line gives a blank line Empty and every other line the kind of
\* the first rule that matches, in the order Department, CourseHeader,
\* SecondaryCourseHeader, PrimaryComponentRow (Line::PrimaryCourseComponent),
\* SecondaryComponentRow (Line::SecondaryCourseComponent), AdditionalMeetingRow
\* (Line::AdditionalMeeting), ComponentTitle, Unknown; a course number, a
\* title and a valid units third field is a SecondaryCourseHeader, never a
\* CourseHeader.
C1_FirstMatchingRuleWins ==
    parsed # Pending =>
        /\ IsBlank(line) => parsed.kind = "Empty"
        /\ ~IsBlank(line) => parsed.kind = RuleKind(line)
        /\ ( /\ ~IsBlank(line)
             /\ FieldCount(line) >= 3
             /\ is_course_number(FieldAt(line, 1))
             /\ UnitsOk(FieldAt(line, 3)) )
           => parsed.kind = "SecondaryCourseHeader"

C1_Witness ==
    /\ parsed # Pending
    /\ parsed.kind = "SecondaryCourseHeader"
    /\ FieldCount(line) = 3
    /\ parsed.units = <<"9">>

(***************************************************************************)
(* Properties of the schedule pipeline                                     *)
(***************************************************************************)
DataLines == SubSeq(feed.text, HeaderLines + 1, Len(feed.text))

HeaderKinds == {"CourseHeader", "SecondaryCourseHeader"}

ComponentKinds == {"PrimaryCourseComponent", "SecondaryCourseComponent"}

\* the step the assembler takes next consumes an AdditionalMeeting line while
\* a component is open
AtAdditionalMeeting ==
    /\ sp_pc = "fold"
    /\ sp_pos < Len(sp_lines)
    /\ sp_lines[sp_pos + 1].kind = "AdditionalMeeting"
    /\ sp_comp # <<>>

AdditionalMeetingAppends ==
    (AtAdditionalMeeting /\ sp_pos' = sp_pos + 1) =>
        LET ln == sp_lines[sp_pos + 1]
            before == sp_comp[1].meetings
            after == sp_comp'[1].meetings
        IN  /\ Len(sp_comp') = 1
            /\ Len(after) = Len(before) + 1
            /\ SubSeq(after, 1, Len(before)) = before
            /\ after[Len(after)] =
                   Meeting(ln.days, ln.time_start, ln.time_end, ln.building_room,
                           ln.location, before[Len(before)].instructors)
            /\ [sp_comp'[1] EXCEPT !.meetings = before] = sp_comp[1]
            /\ sp_course' = sp_course
            /\ sp_out' = sp_out
            /\ sp_title' = sp_title

ScenarioFeed ==
    DataLines = << SampleCourseHeader, SamplePrimaryComponent, SampleAdditionalMeeting >>

ScenarioResult ==
    /\ Len(sp_out) = 1
    /\ sp_out[1].number = C15122
    /\ Len(sp_out[1].components) = 1
    /\ Len(sp_out[1].components[1].meetings) = 2
    /\ sp_out[1].components[1].meetings[2].instructors
           = sp_out[1].components[1].meetings[1].instructors

\* C2: a feed of one CourseHeader, one PrimaryComponentRow and one
\* AdditionalMeetingRow yields exactly one course with exactly one component
\* that owns exactly two meetings; and whenever an AdditionalMeetingRow is
\* consumed while a component is open, that component gains exactly one
\* meeting (the row's days/time/room/location, the instructors of its last
\* meeting) and nothing else changes: no component is started.
C2_AdditionalMeetingJoinsOpenComponent ==
    /\ []((sp_pc = "done" /\ ScenarioFeed) => ScenarioResult)
    /\ [][AdditionalMeetingAppends]_vars

C2_Witness ==
    /\ sp_pc = "done"
    /\ ScenarioFeed
    /\ Len(sp_out) = 1
    /\ Len(sp_out[1].components[1].meetings) = 2

\* the numbers of the header lines among the first n classified lines
RECURSIVE HeaderNumbers(_, _)
HeaderNumbers(ls, n) ==
    IF n = 0 THEN <<>>
    ELSE HeaderNumbers(ls, n - 1)
            \o (IF ls[n].kind \in HeaderKinds THEN <<ls[n].number>> ELSE <<>>)

\* the positions of the header lines among the first n classified lines
HeaderPositions(ls, n) == {i \in 1..n : ls[i].kind \in HeaderKinds}

\* the component rows among the first n lines that follow header line h and
\* precede the next header line
ComponentRowsOf(ls, n, h) ==
    {i \in (h + 1)..n :
        /\ ls[i].kind \in ComponentKinds
        /\ \A j \in (h + 1)..i : ls[j].kind \notin HeaderKinds}

\* the courses started so far, emitted or still open, in order
StartedCourses == sp_out \o WithOpenComponent(CurrentAcc)

\* the k-th smallest element of a set of numbers
RECURSIVE Nth(_, _)
Nth(S, k) == IF k = 1 THEN MinOf(S) ELSE Nth(S \ {MinOf(S)}, k - 1)

NothingLostOrDuplicated ==
    sp_pc \in {"fold", "done"} =>
        LET hs == HeaderPositions(sp_lines, sp_pos)
        IN  /\ [k \in 1..Len(StartedCourses) |-> StartedCourses[k].number]
                = HeaderNumbers(sp_lines, sp_pos)
            /\ Len(StartedCourses) = Cardinality(hs)
            /\ \A k \in 1..Cardinality(hs) :
                   Len(StartedCourses[k].components)
                       = Cardinality(ComponentRowsOf(sp_lines, sp_pos, Nth(hs, k)))
            /\ (sp_course # <<>>) = (sp_pc = "fold" /\ hs # {})
            /\ sp_pc = "done" => (sp_course = <<>> /\ sp_comp = <<>>)
            /\ sp_pc = "done" => Len(sp_out) = Cardinality(HeaderPositions(sp_lines, Len(sp_lines)))

\* the output only grows, by the course that was open, and only when a
\* header line or the end of the input is reached
EmittedAtHeaderOrEnd ==
    sp_out' # sp_out =>
        /\ sp_course # <<>>
        /\ sp_out' = Append(sp_out, CourseEntry(WithOpenComponent(CurrentAcc)[1],
                                                feed.season, FeedYear.year))
        /\ \/ sp_pc' = "done"
           \/ sp_lines[sp_pos + 1].kind \in HeaderKinds

\* C3: the courses started (emitted, then the open one) are, at every point
\* of the fold, exactly the header lines consumed so far, in line order, each
\* holding the component rows that followed its header; a course is emitted
\* only when the next header or the end of the input is reached, with its open
\* component attached; at the end nothing is left open, so the output has one
\* CourseEntry per header line and nothing is lost or emitted twice.
C3_OneCoursePerHeaderInOrder ==
    /\ []NothingLostOrDuplicated
    /\ [][EmittedAtHeaderOrEnd]_vars

C3_Witness ==
    /\ sp_pc = "done"
    /\ Len(sp_out) = 2
    /\ sp_out[1].number # sp_out[2].number
    /\ Len(sp_out[1].components) = 1
    /\ Len(sp_out[2].components) = 1

(***************************************************************************)
(* Properties of the requisite parser                                      *)
(***************************************************************************)
\* the tree of operands (trees) joined by operators, with `or` binding looser
\* than `and` and equal operators grouping to the left
RECURSIVE ChainTree(_, _)
ChainTree(atoms, ops) ==
    LET n == Len(atoms)
        ors == {k \in 1..Len(ops) : ops[k] = OpOr}
    IN  IF n = 1 THEN atoms[1]
        ELSE IF ors # {}
        THEN LET k == MaxOf(ors)
             IN  Or(ChainTree(SubSeq(atoms, 1, k), SubSeq(ops, 1, k - 1)),
                    ChainTree(SubSeq(atoms, k + 1, n), SubSeq(ops, k + 1, n - 1)))
        ELSE And(ChainTree(SubSeq(atoms, 1, n - 1), SubSeq(ops, 1, n - 2)), atoms[n])

\* the tree of a chain: its parenthesised group is one operand
ShapeTree(shape) ==
    LET n == Len(shape.leaves)
        i == shape.group[1]
        j == shape.group[2]
        leaves == [k \in 1..n |-> Course(shape.leaves[k])]
    IN  IF i = 0 THEN ChainTree(leaves, shape.ops)
        ELSE ChainTree(SubSeq(leaves, 1, i - 1)
                           \o << ChainTree(SubSeq(leaves, i, j), SubSeq(shape.ops, i, j - 1)) >>
                           \o SubSeq(leaves, j + 1, n),
                       SubSeq(shape.ops, 1, i - 1) \o SubSeq(shape.ops, j, n - 1))

Chain3(a, op1, b, op2, c) ==
    [leaves |-> <<a, b, c>>, ops |-> <<op1, op2>>, group |-> <<0, 0>>]

\* C4: `or` binds looser than `and`, and repeated operators fold to the left:
\* "a and b or c" is Or(And(a,b),c), "a or b and c" is Or(a,And(b,c)),
\* "a or b or c" is Or(Or(a,b),c), "a and b and c" is And(And(a,b),c); a
\* parenthesised group is parsed as one operand, its operator is never a
\* top-level split point.
C4_OrLooserThanAndLeftFold ==
    req_result # Pending =>
        /\ req_result = Ok(ShapeTree(req_shape))
        /\ \A a, b, c \in CourseNumbers :
            /\ req_shape = Chain3(a, OpAnd, b, OpOr, c)
                 => req_result = Ok(Or(And(Course(a), Course(b)), Course(c)))
            /\ req_shape = Chain3(a, OpOr, b, OpAnd, c)
                 => req_result = Ok(Or(Course(a), And(Course(b), Course(c))))
            /\ req_shape = Chain3(a, OpOr, b, OpOr, c)
                 => req_result = Ok(Or(Or(Course(a), Course(b)), Course(c)))
            /\ req_shape = Chain3(a, OpAnd, b, OpAnd, c)
                 => req_result = Ok(And(And(Course(a), Course(b)), Course(c)))
            /\ req_shape = [Chain3(a, OpOr, b, OpAnd, c) EXCEPT !.group = <<1, 2>>]
                 => req_result = Ok(And(Or(Course(a), Course(b)), Course(c)))
            /\ req_shape = [Chain3(a, OpAnd, b, OpOr, c) EXCEPT !.group = <<2, 3>>]
                 => req_result = Ok(And(Course(a), Or(Course(b), Course(c))))

C4_Witness ==
    /\ req_shape = Chain3(C15122, OpAnd, C21122, OpOr, C15213)
    /\ req_result = Ok(Or(And(Course(C15122), Course(C21122)), Course(C15213)))

\* the parentheses of a text are balanced: no prefix closes more than it
\* opens, and the whole text closes all it opens
RECURSIVE ParenDepths(_, _)
ParenDepths(s, depth) ==
    IF s = <<>> THEN <<depth>>
    ELSE LET d == IF Head(s) = "(" THEN depth + 1
                  ELSE IF Head(s) = ")" THEN depth - 1 ELSE depth
         IN  <<depth>> \o ParenDepths(Tail(s), d)

Balanced(s) ==
    LET depths == ParenDepths(s, 0)
    IN  /\ \A k \in 1..Len(depths) : depths[k] >= 0
        /\ depths[Len(depths)] = 0

RECURSIVE LeavesOf(_)
LeavesOf(e) == IF e.op = "Course" THEN {e.num} ELSE LeavesOf(e.l) \cup LeavesOf(e.r)

IsDigitString(s) == Len(s) > 0 /\ \A k \in 1..Len(s) : IsAsciiDigit(s[k])

NonAsciiOperand == <<"C3", "A9", " ", "o", "r", " ", "1">>

\* C5: Expr::from_str returns Ok(tree) or Err(fragment) for every input,
\* including empty input, unbalanced parentheses and non-ASCII text; it
\* never panics.
C5_FromStrNeverPanics == req_result.tag # "Panic"

C5_PanicOnNonAscii == req_input = NonAsciiOperand /\ req_result = Panic

\* C6: a parse succeeds only if every leaf is a non-empty string of ASCII
\* digits and the parentheses of the input are balanced; empty or
\* whitespace-only input, "()" and unbalanced input are never accepted.
C6_AcceptsOnlyTheGrammar ==
    /\ req_result.tag = "Ok" =>
          /\ \A leaf \in LeavesOf(req_result.tree) : IsDigitString(leaf)
          /\ Balanced(req_input)
    /\ req_result # Pending /\ Trim(req_input) = <<>> => req_result.tag # "Ok"
    /\ req_result # Pending /\ Trim(req_input) = <<"(", ")">> => req_result.tag # "Ok"
    /\ req_result # Pending /\ ~Balanced(req_input) => req_result.tag # "Ok"

C6_EmptyInputAccepted == req_input = <<>> /\ req_result = Ok(Course(<<>>))

(***************************************************************************)
(* Properties of evaluate and simplify                                     *)
(***************************************************************************)
\* the residual of a tree by the rules of the documentation
RECURSIVE Residual(_, _)
Residual(e, done) ==
    IF e.op = "Course" THEN (IF e.num \in done THEN None ELSE Some(e))
    ELSE LET l == Residual(e.l, done)
             r == Residual(e.r, done)
         IN  IF e.op = "And"
             THEN CASE l = None /\ r = None -> None
                    [] l # None /\ r = None -> l
                    [] l = None /\ r # None -> r
                    [] OTHER -> Some(And(l.tree, r.tree))
             ELSE IF l = None \/ r = None THEN None
                  ELSE Some(Or(l.tree, r.tree))

\* C7: simplify follows the residual rules for every tree and completed set:
\* a completed leaf leaves nothing, an open leaf leaves itself; And leaves
\* nothing, the one residual, or And of both residuals; Or leaves nothing
\* when either side leaves nothing and Or of both residuals otherwise.
C7_SimplifyFollowsResidualRules ==
    simp_result # Pending => simp_result = Residual(expr, completed)

C7_Witness ==
    /\ expr = And(Or(Course(C15122), Course(C21122)), Course(C15213))
    /\ completed = {C15122}
    /\ simp_result = Some(Course(C15213))

\* the boolean value of a tree
RECURSIVE Value(_, _)
Value(e, done) ==
    CASE e.op = "Course" -> e.num \in done
      [] e.op = "And" -> Value(e.l, done) /\ Value(e.r, done)
      [] e.op = "Or" -> Value(e.l, done) \/ Value(e.r, done)

ComplexExpression == Or(And(Course(C15122), Course(C21122)), Course(C15213))

\* C8: evaluate is the boolean value of the tree: membership at a leaf,
\* conjunction at And, disjunction at Or; Or(And(15122,21122),15213) is true
\* for {15213} and for {15122,21122} and false for {15122}.
C8_EvaluateIsBooleanValue ==
    eval_result # Pending =>
        /\ eval_result.val = Value(expr, completed)
        /\ expr = ComplexExpression /\ completed = {C15213} => eval_result.val
        /\ expr = ComplexExpression /\ completed = {C15122, C21122} => eval_result.val
        /\ expr = ComplexExpression /\ completed = {C15122} => ~eval_result.val

C8_Witness ==
    /\ expr = ComplexExpression
    /\ completed = {C15213}
    /\ eval_result = [tag |-> "Bool", val |-> TRUE]

\* C9: with nothing completed simplify returns the tree itself; with every
\* course of the tree completed it returns None.
C9_SimplifyExtremes ==
    simp_result # Pending =>
        /\ completed = {} => simp_result = Some(expr)
        /\ LeavesOf(expr) \subseteq completed => simp_result = None

C9_Witness ==
    /\ expr = And(Or(Course(C15122), Course(C21122)), Course(C15213))
    /\ completed = {}
    /\ simp_result = Some(expr)

(***************************************************************************)
(* Properties of the unit parser                                           *)
(***************************************************************************)
NanBetween == <<"9", ",", "n", "a", "n", ",", "4">>

\* C10: a Multi returned by the unit parser has at least two elements, no
\* element is followed by one that is smaller in (min, max) order, and an
\* input with exactly one recognizable token is never a Multi.
C10_MultiSortedAtLeastTwo ==
    unit_result.tag = "Ok" =>
        /\ unit_result.val.kind = "Multi" =>
              /\ Len(unit_result.val.units) >= 2
              /\ \A i, j \in 1..Len(unit_result.val.units) :
                    i < j => SimplePartialCmp(unit_result.val.units[i],
                                              unit_result.val.units[j]) # "Greater"
        /\ Len(CollectUnits(unit_input)) = 1 => unit_result.val.kind \in {"Single", "Range"}

C10_UnsortedAroundNan ==
    /\ unit_input = NanBetween
    /\ unit_result = [tag |-> "Ok",
                      val |-> Multi(<<Single(Num(9)), Single(NaN), Single(Num(4))>>)]

\* the tokens of a units text: its pieces between commas and whitespace
RECURSIVE TokensOfParts(_)
TokensOfParts(parts) ==
    IF parts = <<>> THEN <<>>
    ELSE SplitWhitespace(Head(parts)) \o TokensOfParts(Tail(parts))

UnitTokensOf(s) == TokensOfParts(Split(s, ","))

\* a token that reads as a number or as a min-max range
Recognizable(token) == ParseF32(token).ok \/ ParseRange(token) # <<>>

HasRecognizableToken(s) ==
    \E k \in 1..Len(UnitTokensOf(s)) : Recognizable(UnitTokensOf(s)[k])

EmptyInput == [tag |-> "Err", err |-> "EmptyInput"]

NoValidUnits == [tag |-> "Err", err |-> "NoValidUnits"]

NumberAfterWord == <<"V", "A", "R", " ", "-", "4">>

\* C11: Units::from_str and UnitType::from_str return EmptyInput exactly for
\* a text that is empty once trimmed, NoValidUnits exactly for a non-empty
\* text that is not "VAR" (for Units) and has no token that reads as a number
\* or a range, and succeed on every other text.
C11_UnitErrorsExactly ==
    LET t == Trim(unit_input)
    IN  /\ unit_result # Pending =>
              /\ unit_result = EmptyInput <=> t = <<>>
              /\ unit_result = NoValidUnits
                    <=> (t # <<>> /\ t # <<"V", "A", "R">> /\ ~HasRecognizableToken(t))
              /\ unit_result.tag = "Ok"
                    <=> (t = <<"V", "A", "R">> \/ HasRecognizableToken(t))
        /\ unit_type_result # Pending =>
              /\ unit_type_result = EmptyInput <=> t = <<>>
              /\ unit_type_result = NoValidUnits
                    <=> (t # <<>> /\ ~HasRecognizableToken(t))
              /\ unit_type_result.tag = "Ok" <=> HasRecognizableToken(t)

C11_NumberTokenRejected ==
    /\ unit_input = NumberAfterWord
    /\ UnitsFromStr(<<"-", "4">>) = [tag |-> "Ok", val |-> Single(Num(0 - 4))]
    /\ unit_result = NoValidUnits

(***************************************************************************)
(* Properties of the ordering on Units                                     *)
(***************************************************************************)
\* C12: for any two Units values exactly one of a < b, a == b, a > b holds,
\* and two values that partial_cmp calls Equal are equal under ==.
C12_TotalOrderConsistentWithEq ==
    cmp_result # Pending =>
        /\ \/ cmp_result.ord = "Less" /\ ~cmp_result.eq
           \/ cmp_result.ord = "Greater" /\ ~cmp_result.eq
           \/ cmp_result.ord \notin {"Less", "Greater"} /\ cmp_result.eq
        /\ cmp_result.ord = "Equal" => cmp_result.eq

C12_SingleEqualToRangeButNotEq ==
    /\ cmp_a = Single(Num(4))
    /\ cmp_b = Range(Num(4), Num(4))
    /\ cmp_result = [tag |-> "Compared", ord |-> "Equal", eq |-> FALSE]

\* a value that holds no NaN
RECURSIVE NoNaN(_)
NoNaN(u) ==
    IF u.kind = "VAR" THEN TRUE
    ELSE IF u.kind = "Multi" THEN \A i \in 1..Len(u.units) : NoNaN(u.units[i])
    ELSE ~u.min.nan /\ ~u.max.nan

\* the smallest minimum and the largest maximum of a value without NaN
Lowest(u) ==
    IF u.kind = "Multi" THEN MinOf({u.units[i].min.v : i \in 1..Len(u.units)})
    ELSE u.min.v

Highest(u) ==
    IF u.kind = "Multi" THEN MaxOf({u.units[i].max.v : i \in 1..Len(u.units)})
    ELSE u.max.v

Lexicographic(a, b) ==
    IF Lowest(a) < Lowest(b) THEN "Less"
    ELSE IF Lowest(a) > Lowest(b) THEN "Greater"
    ELSE IF Highest(a) < Highest(b) THEN "Less"
    ELSE IF Highest(a) > Highest(b) THEN "Greater"
    ELSE "Equal"

\* C13: VAR is greater than every Value and compares Equal only to VAR; two
\* values are ordered by their minimum and, on equal minima, by their maximum,
\* a Multi counting with the smallest minimum and the largest maximum of its
\* elements.
C13_LexicographicWithVarOnTop ==
    cmp_result # Pending =>
        /\ cmp_a = VAR /\ cmp_b # VAR => cmp_result.ord = "Greater"
        /\ cmp_a # VAR /\ cmp_b = VAR => cmp_result.ord = "Less"
        /\ cmp_a = VAR \/ cmp_b = VAR => (cmp_result.ord = "Equal" <=> cmp_a = cmp_b)
        /\ cmp_a # VAR /\ cmp_b # VAR /\ NoNaN(cmp_a) /\ NoNaN(cmp_b)
              => cmp_result.ord = Lexicographic(cmp_a, cmp_b)

C13_Witness ==
    /\ cmp_a = Multi(<<Single(Num(9)), Single(Num(4))>>)
    /\ cmp_b = Range(Num(4), Num(4))
    /\ cmp_result # Pending
    /\ cmp_result.ord = "Greater"

(***************************************************************************)
(* Properties of the Display of Units                                      *)
(***************************************************************************)
RoundTripLiterals ==
    { <<"9">>, <<"3", "-", "9">>, <<"0", ",", "1", "2", ",", "2", "4">>,
      <<"3", "-", "1", "2", ",", "1", "8">>, <<"V", "A", "R">> }

\* C14: every text of whole-number tokens and ranges below 100 separated by
\* commas or spaces, and the literals "9", "3-9", "0,12,24", "3-12,18" and
\* "VAR", parses; the parse of the Display text of the parsed value succeeds
\* and equals the parsed value.
C14_UnitsRoundTrip ==
    /\ RoundTripLiterals \subseteq UnitTexts
    /\ unit_result # Pending => unit_result.tag = "Ok"
    /\ unit_reparsed # Pending =>
          /\ unit_reparsed.tag = "Ok"
          /\ UnitsEq(unit_reparsed.val, unit_result.val)

C14_Witness ==
    /\ unit_input = <<"3", "-", "1", "2", " ", "0">>
    /\ unit_text = Text(<<"0", ",", "3", "-", "1", "2">>)
    /\ unit_reparsed = unit_result
    /\ unit_result.tag = "Ok"
    /\ unit_result.val.kind = "Multi"

(***************************************************************************)
(* Properties of first_pass                                                *)
(***************************************************************************)
\* the kind the rules give a line
ExpectedKind(l) == IF IsBlank(l) THEN "Empty" ELSE RuleKind(l)

\* the lines of a sequence that match no rule, in order
RECURSIVE UnmatchedLines(_)
UnmatchedLines(ls) ==
    IF ls = <<>> THEN <<>>
    ELSE (IF ExpectedKind(Head(ls)) = "Unknown" THEN <<Head(ls)>> ELSE <<>>)
         \o UnmatchedLines(Tail(ls))

\* C15: a line that matches no rule becomes Line::Unknown carrying its text
\* and is printed once; no other line is printed; the lines after it are
\* classified as the rules say.
C15_UnknownIsNotFatal ==
    sp_pc \in {"fold", "done"} =>
        /\ Len(sp_lines) = Len(DataLines)
        /\ \A i \in 1..Len(DataLines) :
              /\ sp_lines[i].kind = ExpectedKind(DataLines[i])
              /\ sp_lines[i].kind = "Unknown" => sp_lines[i].raw = DataLines[i]
        /\ diag = UnmatchedLines(DataLines)

C15_Witness ==
    /\ sp_pc = "fold"
    /\ Len(DataLines) = 3
    /\ DataLines[1] = SampleUnknown
    /\ sp_lines[1] = [kind |-> "Unknown", raw |-> SampleUnknown]
    /\ sp_lines[2].kind = "CourseHeader"
    /\ sp_lines[3].kind = "PrimaryCourseComponent"
    /\ diag = <<SampleUnknown>>

\* C16: first_pass drops the first 11 lines of the feed and returns one Line
\* per remaining line, in line order; a feed of 11 lines or fewer gives no
\* Line.
C16_OneLinePerDataLine ==
    sp_pc \in {"fold", "done"} =>
        /\ Len(feed.text) <= 11 => sp_lines = <<>>
        /\ Len(feed.text) > 11 => Len(sp_lines) = Len(feed.text) - 11
        /\ \A i \in 1..Len(sp_lines) :
              sp_lines[i].kind = ExpectedKind(feed.text[11 + i])

C16_Witness ==
    /\ sp_pc = "fold"
    /\ Len(feed.text) = 14
    /\ feed.text[12] = SampleSecondaryCourseHeader
    /\ feed.text[13] = <<>>
    /\ feed.text[14] = SampleComponentTitle
    /\ Len(sp_lines) = 3
    /\ sp_lines[1].kind = "SecondaryCourseHeader"
    /\ sp_lines[2].kind = "Empty"
    /\ sp_lines[3].kind = "ComponentTitle"

(***************************************************************************)
(* Properties of the assembler: skipped rows and the title override        *)
(***************************************************************************)
\* the assembler consumes its next line
ConsumesLine ==
    /\ sp_pc = "fold"
    /\ sp_pos < Len(sp_lines)
    /\ sp_pos' = sp_pos + 1

SkipsOrphansAndPassedLines ==
    ConsumesLine =>
        LET ln == sp_lines[sp_pos + 1]
        IN  /\ ln.kind = "AdditionalMeeting" /\ sp_comp = <<>>
                 => UNCHANGED << sp_course, sp_comp, sp_out >>
            /\ ln.kind \in ComponentKinds /\ sp_course = <<>>
                 => UNCHANGED << sp_course, sp_comp, sp_out >>
            /\ ln.kind \in {"Department", "Empty", "Unknown"}
                 => UNCHANGED << sp_course, sp_comp, sp_title, sp_out >>

\* C17: the assembler never fails: while it folds it has a next line to
\* consume or the end of the input to close at, every step leaves it folding
\* or done, and the worker stops without a result only when the feed has no
\* year; an AdditionalMeetingRow with no open component and a component row
\* with no open course change neither the open course, the open component nor
\* the emitted courses; Department, Empty and Unknown lines change nothing.
C17_AssemblerNeverFails ==
    /\ [](sp_pc = "fold" => (sp_pos < Len(sp_lines) \/ sp_pos = Len(sp_lines)))
    /\ [](sp_pc = "panicked" => FeedYear = None)
    /\ [][sp_pc = "fold" => sp_pc' \in {"fold", "done"}]_vars
    /\ [][SkipsOrphansAndPassedLines]_vars

C17_Witness ==
    /\ sp_pc = "done"
    /\ Len(sp_lines) = 3
    /\ sp_lines[1].kind = "PrimaryCourseComponent"
    /\ sp_lines[2].kind = "CourseHeader"
    /\ sp_lines[3].kind = "AdditionalMeeting"
    /\ Len(sp_out) = 1
    /\ sp_out[1].components = <<>>

TitleOverrideStep ==
    ConsumesLine =>
        LET ln == sp_lines[sp_pos + 1]
        IN  /\ ln.kind = "ComponentTitle" => sp_title' = <<ln.title>>
            /\ ln.kind = "SecondaryCourseComponent" /\ sp_course # <<>> =>
                  /\ sp_comp'[1].title = (IF sp_title # <<>> THEN sp_title[1]
                                          ELSE sp_course[1].title)
                  /\ sp_title' = <<>>
            /\ ln.kind \notin {"ComponentTitle", "SecondaryCourseComponent"}
                  => sp_title' = sp_title

TwoSectionsAfterTitle ==
    DataLines = << SampleCourseHeader, SampleComponentTitle,
                   SampleSecondaryComponent, SampleSecondaryComponent >>

Keyword(spelling) == IF Len(spelling) = 3 THEN OpAnd ELSE OpOr

\* the chain with every operator in lower case
LowerCased(shape) ==
    [shape EXCEPT !.ops = [k \in 1..Len(shape.ops) |-> Keyword(shape.ops[k])]]

UpperCaseAnd == C15122 \o <<" ", "A", "N", "D", " ">> \o C21122

\* C19: the operator keywords are matched whatever their case: a chain
\* spelled with "AND", "And" or "OR" parses to the tree of the same chain
\* spelled with "and" and "or".
C19_KeywordsCaseInsensitive ==
    req_result # Pending =>
        /\ req_result = Ok(ShapeTree(LowerCased(req_shape)))
        /\ req_result = from_str(Render(LowerCased(req_shape)))

C19_UpperCaseAndRejected ==
    /\ req_input = UpperCaseAnd
    /\ req_result = Err(UpperCaseAnd)
    /\ from_str(C15122 \o <<" ">> \o OpAnd \o <<" ">> \o C21122)
           = Ok(And(Course(C15122), Course(C21122)))

(***************************************************************************)
(* Properties of DaySet                                                    *)
(***************************************************************************)
WeekOrder == <<"M", "T", "W", "R", "F", "S", "U">>

\* the days of a set, by the bit of each day in MONDAY..SUNDAY
DayAt(k) == CASE k = 1 -> 1 [] k = 2 -> 2 [] k = 3 -> 4 [] k = 4 -> 8
              [] k = 5 -> 16 [] k = 6 -> 32 [] k = 7 -> 64

HasDay(set, k) == (set.bits \div DayAt(k)) % 2 = 1

\* the letters of the days of a set, in week order
RECURSIVE LettersFrom(_, _)
LettersFrom(set, k) ==
    IF k > 7 THEN <<>>
    ELSE (IF HasDay(set, k) THEN <<WeekOrder[k]>> ELSE <<>>) \o LettersFrom(set, k + 1)

\* C20: every DaySet is one of the 128 subsets of the seven days; its Display
\* text is the letters of its days in the order M T W R F S U, whatever the
\* order the days were added in or appeared in the parsed text; parsing that
\* text gives back the same set.
C20_DaySetRoundTrip ==
    /\ day_set # Pending => day_set.bits \in 0..127
    /\ day_text # Pending => day_text = Text(LettersFrom(day_set, 1))
    /\ day_reparsed # Pending => day_reparsed = [tag |-> "Ok", val |-> day_set]

C20_Witness ==
    /\ day_input = Text(<<"U", "F", "M">>)
    /\ day_text = Text(<<"M", "F", "U">>)
    /\ day_reparsed = [tag |-> "Ok", val |-> DaySet(81)]

(***************************************************************************)
(* Properties of the DaySet operators                                      *)
(***************************************************************************)
\* the days of the week in a u8, as a set of positions 1..7
DaysIn(bits) == {k \in 1..7 : (bits \div DayAt(k)) % 2 = 1}

IsCall(op) == call # Pending /\ call.op = op

\* C21: every DaySet reached from a constant or a parsed text by add, remove,
\* set, |, & and ! keeps bit 7 clear; the complement of a set holds exactly
\* the days of the week that are not in the set, and the complement of the
\* complement is the set.
C21_SevenBitsAndComplement ==
    /\ day_set # Pending => day_set.bits \in 0..127
    /\ IsCall("not") =>
          /\ DaysIn(call.value) = (1..7) \ DaysIn(call.self)
          /\ call.value \in 0..127
          /\ DaySetNot(call.value) = call.self

C21_Witness ==
    /\ IsCall("not")
    /\ call.self = 21
    /\ call.value = 106

\* C30: add(d) and set(d, true) put d in the set, remove(d) and set(d, false)
\* take it out, and the other days stay as they were; a second add or remove
\* of the same day changes nothing; contains(x) is true exactly when every
\* day of x is in the set.
C30_MutatorsChangeOnlyTheNamedDay ==
    /\ (IsCall("add") \/ IsCall("set_true")) =>
          /\ DaySetContains(call.value, call.arg)
          /\ DaysIn(call.value) = DaysIn(call.self) \cup DaysIn(call.arg)
          /\ call.value \in 0..127
    /\ (IsCall("remove") \/ IsCall("set_false")) =>
          /\ call.arg \in SingleDays => ~DaySetContains(call.value, call.arg)
          /\ DaysIn(call.value) = DaysIn(call.self) \ DaysIn(call.arg)
          /\ call.value \in 0..127
    /\ IsCall("add") => DaySetAdd(call.value, call.arg) = call.value
    /\ IsCall("remove") => DaySetRemove(call.value, call.arg) = call.value
    /\ IsCall("contains") => (call.value <=> DaysIn(call.arg) \subseteq DaysIn(call.self))

C30_Witness ==
    /\ IsCall("remove")
    /\ call.self = 21
    /\ call.arg = WEDNESDAY
    /\ call.value = 17

(***************************************************************************)
(* Properties of Days::from_str                                            *)
(***************************************************************************)
\* the days whose letter occurs in a text, as positions 1..7
LettersIn(s) == {k \in 1..7 : \E i \in 1..Len(s) : s[i] = WeekOrder[k]}

\* C22: Days::from_str gives TBA exactly for the text "TBA"; any other text
\* gives Days(set) where set holds exactly the days whose letter occurs in the
\* text; it never gives an error.
C22_TbaOnlyForTheLiteral ==
    IsCall("Days::from_str") =>
        /\ call.value.tag = "Ok"
        /\ (call.value.val = DaysTBA) <=> (call.arg = <<"T", "B", "A">>)
        /\ call.value.val # DaysTBA =>
              /\ call.value.val.tag = "Days"
              /\ DaysIn(call.value.val.set.bits) = LettersIn(call.arg)

\* a text that holds "TBA" and a day letter besides gives TBA
C22_TbaInsideALongerText ==
    /\ IsCall("Days::from_str")
    /\ call.arg = <<"M", "T", "B", "A">>
    /\ call.value = [tag |-> "Ok", val |-> DaysTBA]

(***************************************************************************)
(* Properties of TimeRange                                                 *)
(***************************************************************************)
\* C23: a TimeRange made by new or from_strings has begin < end: new gives
\* None when begin >= end, from_strings gives None when one of the two texts
\* is not a time or when the first time is not before the second, and
\* otherwise both give the range of the two times.
C23_BeginBeforeEnd ==
    /\ IsCall("TimeRange::new") =>
          /\ call.value.tag = "Some" =>
                /\ call.value.begin < call.value.end
                /\ <<call.value.begin, call.value.end>> = call.arg
          /\ call.arg[1] >= call.arg[2] => call.value = NoRange
          /\ call.arg[1] < call.arg[2] => call.value.tag = "Some"
    /\ IsCall("TimeRange::from_strings") =>
          LET b == ParseTime(call.arg[1])
              e == ParseTime(call.arg[2])
          IN  /\ call.value.tag = "Some" =>
                    /\ call.value.begin < call.value.end
                    /\ b = TimeOk(call.value.begin)
                    /\ e = TimeOk(call.value.end)
              /\ (b = TimeErr \/ e = TimeErr) => call.value = NoRange
              /\ (b # TimeErr /\ e # TimeErr /\ b.secs >= e.secs) => call.value = NoRange

\* 12:00AM is midnight, so a range from 11:00AM to 12:00AM is refused
C23_Witness ==
    /\ IsCall("TimeRange::from_strings")
    /\ call.arg = <<<<"1", "1", ":", "0", "0", "A", "M">>, <<"1", "2", ":", "0", "0", "A", "M">>>>
    /\ call.value = NoRange

(***************************************************************************)
(* Properties of BuildingRoom::from_str                                    *)
(***************************************************************************)
\* the text before the first run of whitespace of s
BeforeFirstRun(s) ==
    LET ws == {i \in 1..Len(s) : IsWhitespace(s[i])}
    IN  IF ws = {} THEN s ELSE SubSeq(s, 1, MinOf(ws) - 1)

\* the text after the first run of whitespace of s
AfterFirstRun(s) ==
    LET ws == {i \in 1..Len(s) : IsWhitespace(s[i])}
        after == {i \in 1..Len(s) : i > MinOf(ws) /\ ~IsWhitespace(s[i])}
    IN  IF ws = {} \/ after = {} THEN <<>> ELSE SubSeq(s, MinOf(after), Len(s))

SentinelTexts == {SentinelPhrases[k][2] : k \in 1..Len(SentinelPhrases)}

\* C24: BuildingRoom::from_str never fails; it gives a sentinel exactly for
\* the sentinel's own phrase, and for any other text Specific(building, room)
\* with building the text before the first run of whitespace and room the
\* text after that run.
C24_SentinelOrBuildingAndRemainder ==
    IsCall("BuildingRoom::from_str") =>
        /\ call.value.tag = "Ok"
        /\ call.arg \in SentinelTexts =>
              \E k \in 1..Len(SentinelPhrases) :
                  /\ SentinelPhrases[k][2] = call.arg
                  /\ call.value = Sentinel(SentinelPhrases[k][1])
        /\ call.arg \notin SentinelTexts =>
              call.value = Specific(BeforeFirstRun(call.arg), AfterFirstRun(call.arg))

\* two spaces inside the room come back as one
C24_RoomRespaced ==
    /\ IsCall("BuildingRoom::from_str")
    /\ call.arg = <<"C", "U", "C", " ", "A", "R", " ", " ", "2", "5", "4">>
    /\ call.value = Specific(<<"C", "U", "C">>, <<"A", "R", " ", "2", "5", "4">>)

(***************************************************************************)
(* Properties relating simplify and evaluate                               *)
(***************************************************************************)
\* C26: simplify returns None exactly when evaluate returns true; a residual
\* holds no completed course and evaluates to false on the completed set.
C26_SimplifyAgreesWithEvaluate ==
    /\ (simp_result # Pending /\ eval_result # Pending) =>
          ((simp_result = None) <=> eval_result.val)
    /\ (simp_result # Pending /\ simp_result # None) =>
          /\ LeavesOf(simp_result.tree) \cap completed = {}
          /\ ~evaluate(simp_result.tree, completed)

C26_Witness ==
    /\ expr = Or(And(Course(C15122), Course(C21122)), Course(C15213))
    /\ completed = {C15122}
    /\ simp_result = Some(Or(Course(C21122), Course(C15213)))
    /\ eval_result = [tag |-> "Bool", val |-> FALSE]

\* C27: for every set that includes the completed set, the residual evaluates
\* as the tree does, and a tree with no residual evaluates to true;
\* simplifying the residual with the completed set gives the residual back.
C27_ResidualEquivalentLater ==
    simp_result # Pending =>
        /\ \A later \in SUBSET CourseNumbers :
              completed \subseteq later =>
                  IF simp_result = None
                  THEN evaluate(expr, later)
                  ELSE evaluate(simp_result.tree, later) <=> evaluate(expr, later)
        /\ simp_result # None =>
              simplify(simp_result.tree, completed) = simp_result

C27_Witness ==
    /\ expr = And(Course(C15122), Or(Course(C21122), Course(C15213)))
    /\ completed = {C15122}
    /\ simp_result = Some(Or(Course(C21122), Course(C15213)))

(***************************************************************************)
(* Properties of the parsing workers                                       *)
(***************************************************************************)
\* every finished worker holds what its feed gives when run alone
ResultsAsAlone ==
    \A w \in WorkerIds :
        /\ workers[w].pc = "done" =>
              RunAlone(workers[w].season, workers[w].text) =
                  [tag |-> "Result", out |-> workers[w].acc.out]
        /\ workers[w].pc = "panicked" =>
              RunAlone(workers[w].season, workers[w].text) = [tag |-> "Panicked"]

\* C25: with the feeds classified and assembled by concurrent workers, in
\* every interleaving each worker ends with the result its feed gives when
\* processed alone, and no step of a worker writes anything another worker
\* or the process shares: a step changes the state of one worker only and
\* prints nothing.
C25_WorkersShareNothing ==
    /\ []ResultsAsAlone
    /\ [][\E w \in WorkerIds : \A v \in WorkerIds \ {w} : workers'[v] = workers[v]]_vars
    /\ [][console' = console]_vars

\* both workers have printed, the second one first
C25_ConsoleInterleaved ==
    /\ Len(console) = 2
    /\ console[1].by = 2
    /\ console[2].by = 1

(***************************************************************************)
(* Properties of save_courses                                              *)
(***************************************************************************)
\* C28: for every course a committed batch wrote, the id returned for it is
\* the primary key of its courses row and the course_id of its components
\* rows, and every components row in the table refers to a courses row of
\* the table.
C28_OneIdPerSavedCourse ==
    /\ \A b \in DOMAIN batches :
          batches[b].pc = "done" =>
              \A i \in 1..Len(batches[b].course_ids) :
                  batches[b].course_ids[i] = batches[b].all_courses[i].id
    /\ \A r \in db.components : \E c \in db.courses : c.id = r.course_id

\* a batch of one course without components has committed: the id it
\* returned is not the id of the row it wrote
C28_ReturnedIdIsNoRow ==
    \E b \in DOMAIN batches :
        /\ batches[b].pc = "done"
        /\ batches[b].course_ids = <<1>>
        /\ db.courses = {[id |-> 2]}

\* C29: once save_courses has returned Ok, no two rows of the instructors
\* table have the same name.
C29_OneRowPerInstructorName ==
    save_result.tag = "Ok" =>
        \A r1 \in db.instructors, r2 \in db.instructors : r1.name = r2.name => r1 = r2

\* save_courses commits no instructors row: a batch that names an instructor
\* has a component, and its transaction ends at the insert of the components
InstructorsNeverCommitted == db.instructors \subseteq {StoredInstructor}

\* two transactions each hold a row they wrote for the same name
SameNameInTwoTransactions ==
    \E b1 \in DOMAIN batches, b2 \in DOMAIN batches :
        /\ b1 # b2
        /\ \E r1 \in batches[b1].txn.instructors, r2 \in batches[b2].txn.instructors :
              r1.name = r2.name /\ r1.id # r2.id

====
